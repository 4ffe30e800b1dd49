-------------------------- MODULE VaultStoreProofs --------------------------
(***************************************************************************)
(* Proofs about VaultStore, for any number of handlers, sites, names and   *)
(* documents.                                                              *)
(***************************************************************************)
EXTENDS VaultStore, TLAPS

(* The operation of a job tells its type. *)
LEMMA JobOfOp ==
    ASSUME TypeOK, NEW w \in Workers
    PROVE  /\ job[w].op = "add" => job[w] \in Adding
           /\ job[w].op = "update" => job[w] \in Updating
           /\ job[w].op \notin {"add", "update"} => job[w] = Idle
           /\ job[w] # Idle => job[w].op \in {"add", "update"}
BY DEF TypeOK, Idle, Adding, Updating

LEMMA LosingTyped ==
    ASSUME TypeOK, NEW a
    PROVE  Losing(job, a) \in [Workers -> {Idle} \cup Adding \cup Updating]
BY JobOfOp DEF TypeOK, Losing, Updating

LEMMA AnswerTyped ==
    ASSUME NEW op \in {"add", "update", "delete"}, NEW code \in {"200", "400"},
           NEW effect \in {"none", "own", "other"}, NEW excused \in BOOLEAN,
           Answer(op, code, effect, excused)
    PROVE  answer' \in Answers
BY DEF Answer, Answers

(* The two steps of a handler's job: it goes on, or returns. *)
LEMMA JobTyped ==
    ASSUME TypeOK, NEW w \in Workers, NEW j \in {Idle} \cup Adding \cup Updating,
           job' = [job EXCEPT ![w] = j]
    PROVE  job' \in [Workers -> {Idle} \cup Adding \cup Updating]
BY DEF TypeOK

LEMMA TypeInductive == TypeOK /\ [Next]_vars => TypeOK'
<1> SUFFICES ASSUME TypeOK, [Next]_vars PROVE TypeOK'
  OBVIOUS
<1>1. ASSUME NEW w \in Workers, NEW a \in Account, AddArrive(w, a) PROVE TypeOK'
  <2>1. [op |-> "add", step |-> "look", account |-> a, blind |-> FALSE] \in Adding
    BY DEF Adding
  <2>2. overlap' \subseteq SUBSET Oids
    <3>1. \A v \in Workers : job[v].op = "add" => job[v].account.oid \in Oids
      BY JobOfOp DEF Adding, Account
    <3>2. QED  BY <1>1, <3>1 DEF AddArrive, TypeOK, Account
  <2>3. QED  BY <1>1, <2>1, <2>2 DEF AddArrive, TypeOK
<1>2. ASSUME NEW w \in Workers, NEW expired \in BOOLEAN, AddLook(w, expired) PROVE TypeOK'
  <2>1. job[w] \in Adding  BY <1>2, JobOfOp DEF AddLook
  <2>2. job' \in [Workers -> {Idle} \cup Adding \cup Updating]
    <3>1. CASE job' = [job EXCEPT ![w] = Idle]  BY <3>1, JobTyped
    <3>2. CASE job' = [job EXCEPT ![w].step = "insert", ![w].blind = expired]
      <4>1. job' = [job EXCEPT ![w] = [[job[w] EXCEPT !.step = "insert"] EXCEPT !.blind = expired]]
        BY <3>2 DEF TypeOK
      <4>2. [job[w] EXCEPT !.step = "insert"] \in Adding  BY <2>1 DEF Adding
      <4>3. [[job[w] EXCEPT !.step = "insert"] EXCEPT !.blind = expired] \in Adding
        BY <4>2 DEF Adding
      <4>4. QED  BY <4>1, <4>3, JobTyped
    <3>3. QED  BY <1>2, <3>1, <3>2 DEF AddLook, Return
  <2>3. answer' \in Answers \cup {Idle}
    <3>1. answer' = answer \/ Answer("add", "400", "none", FALSE)  BY <1>2 DEF AddLook
    <3>2. QED  BY <3>1, AnswerTyped DEF TypeOK
  <2>4. QED  BY <1>2, <2>2, <2>3 DEF AddLook, TypeOK
<1>3. ASSUME NEW w \in Workers, AddInsert(w) PROVE TypeOK'
  BY <1>3, JobOfOp DEF AddInsert, TypeOK, Adding, Account, Return, Answer, Answers
<1>4. ASSUME NEW url \in Urls, NEW name \in Names, Delete(url, name) PROVE TypeOK'
  <2>1. answer' \in Answers  BY <1>4, AnswerTyped DEF Delete
  <2>2. vault' \subseteq vault /\ UNCHANGED <<unused, overlap, unchecked, renamed>>
    BY <1>4 DEF Delete
  <2>3. job' = job \/ \E a : job' = Losing(job, a)  BY <1>4 DEF Delete
  <2>4. job' \in [Workers -> {Idle} \cup Adding \cup Updating]
    BY <2>3, LosingTyped DEF TypeOK
  <2>5. QED  BY <2>1, <2>2, <2>4 DEF TypeOK
<1>5. ASSUME NEW w \in Workers, NEW url \in Urls, NEW old \in Names, NEW name \in Names,
             NEW secret \in Secrets, UpdateArrive(w, url, old, name, secret)
      PROVE  TypeOK'
  BY <1>5 DEF UpdateArrive, TypeOK, Updating, history
<1>6. ASSUME NEW w \in Workers, NEW expired \in BOOLEAN, UpdateLook(w, expired) PROVE TypeOK'
  <2>1. answer' \in Answers \cup {Idle}
    <3>1. answer' = answer \/ Answer("update", "400", "none", FALSE)  BY <1>6 DEF UpdateLook
    <3>2. QED  BY <3>1, AnswerTyped DEF TypeOK
  <2>2. job[w] \in Updating  BY <1>6, JobOfOp DEF UpdateLook
  <2>3. job' = [job EXCEPT ![w] = Idle] \/ job' = [job EXCEPT ![w] = [job[w] EXCEPT !.step = "write"]]
    BY <1>6 DEF UpdateLook, Return, TypeOK
  <2>4. [job[w] EXCEPT !.step = "write"] \in Updating  BY <2>2 DEF Updating
  <2>5. job' \in [Workers -> {Idle} \cup Adding \cup Updating]  BY <2>3, <2>4, JobTyped
  <2>6. QED  BY <1>6, <2>1, <2>5 DEF UpdateLook, TypeOK
<1>7. ASSUME NEW w \in Workers, UpdateWrite(w) PROVE TypeOK'
  <2>1. job[w] \in Updating  BY <1>7, JobOfOp DEF UpdateWrite
  <2>2. CASE Targets(job[w]) = {} /\ UNCHANGED <<vault, renamed>>
    BY <1>7, <2>1, <2>2 DEF UpdateWrite, TypeOK, Updating, Return, Answer, Answers
  <2>3. ASSUME NEW a \in Targets(job[w]),
               vault' = (vault \ {a}) \cup {Updated(a, job[w])},
               renamed' = IF job[w].name # job[w].old THEN renamed \cup {a.oid} ELSE renamed,
               job' = [(IF job[w].name # job[w].old THEN Losing(job, a) ELSE job)
                         EXCEPT ![w] = Idle],
               \E e \in {"own", "other"}, x \in BOOLEAN : Answer("update", "200", e, x)
        PROVE  TypeOK'
    <3>1. a \in Account /\ a \in vault  BY <2>3 DEF Targets, TypeOK
    <3>2. Updated(a, job[w]) \in Account  BY <2>1, <3>1 DEF Updated, Account, Updating
    <3>3. job' \in [Workers -> {Idle} \cup Adding \cup Updating]
      BY <2>3, LosingTyped DEF TypeOK
    <3>4. answer' \in Answers  BY <2>3 DEF Answer, Answers
    <3>5. UNCHANGED <<unused, overlap, unchecked>>  BY <1>7 DEF UpdateWrite
    <3>6. vault' \subseteq Account /\ renamed' \subseteq Oids
      BY <2>3, <3>1, <3>2 DEF TypeOK, Account
    <3>7. QED  BY <3>3, <3>4, <3>5, <3>6 DEF TypeOK
  <2>4. QED
    <3>1. job[w].lost \in BOOLEAN  BY <2>1 DEF Updating
    <3>2. QED  BY <1>7, <2>2, <2>3, <3>1 DEF UpdateWrite
<1>8. ASSUME NEW w \in Workers, Fail(w) PROVE TypeOK'
  BY <1>8 DEF Fail, Return, TypeOK, history
<1>9. ASSUME NEW op \in {"add", "update", "delete"}, InvalidToken(op) \/ EmptyField(op)
      PROVE  TypeOK'
  <2>1. answer' \in Answers
    <3>1. Answer(op, "200", "none", TRUE) \/ Answer(op, "400", "none", FALSE)
      BY <1>9 DEF InvalidToken, EmptyField, Turned
    <3>2. QED  BY <3>1, AnswerTyped
  <2>2. QED  BY <1>9, <2>1 DEF InvalidToken, EmptyField, Turned, TypeOK
<1>10. CASE UNCHANGED vars  BY <1>10 DEF vars, history, TypeOK
<1>11. QED
  BY <1>1, <1>2, <1>3, <1>4, <1>5, <1>6, <1>7, <1>8, <1>9, <1>10 DEF Next

(* Every variable keeps its type: no handler leaves a half-built job or    *)
(* document (controll_data.py:50-130).                                     *)
THEOREM Typing == Spec => []TypeOK
<1>1. Init => TypeOK  BY DEF Init, TypeOK
<1>2. QED  BY <1>1, TypeInductive, PTL DEF Spec

-----------------------------------------------------------------------------
(* A client learns from an answer what it may conclude: by the answers     *)
(* themselves, as each is sent with what was done (controll_data.py:57-130,*)
(* backend_client.cpp:477).                                                *)
THEOREM AnswersTell == Spec => []AnswerTells
<1>1. Init => AnswerTells  BY DEF Init, Idle, AnswerTells
<1>2. AnswerTells /\ [Next]_vars => AnswerTells'
  <2> SUFFICES ASSUME AnswerTells, [Next]_vars PROVE AnswerTells'
    OBVIOUS
  <2>1. \/ answer' = answer
        \/ \E x : \/ Answer("add", "400", "none", x) \/ Answer("add", "400", "own", x)
                 \/ Answer("delete", "400", "none", x) \/ Answer("delete", "200", "own", x)
                 \/ Answer("update", "400", "none", x)
                 \/ \E e : Answer("update", "200", e, x)
                 \/ \E op, code : Answer(op, code, "none", x)
    <3>1. ASSUME NEW w \in Workers, NEW url, NEW old, NEW name, NEW secret,
                 UpdateArrive(w, url, old, name, secret)
          PROVE  answer' = answer
      BY <3>1 DEF UpdateArrive, history
    <3>2. ASSUME NEW w \in Workers, NEW a, AddArrive(w, a) PROVE answer' = answer
      BY <3>2 DEF AddArrive
    <3>3. ASSUME NEW w \in Workers, NEW x, AddLook(w, x) \/ UpdateLook(w, x) \/ AddInsert(w)
          PROVE  \/ answer' = answer
                 \/ \E y : \/ Answer("add", "400", "none", y) \/ Answer("add", "400", "own", y)
                          \/ Answer("update", "400", "none", y)
      BY <3>3 DEF AddLook, UpdateLook, AddInsert
    <3>4. ASSUME NEW w \in Workers, UpdateWrite(w)
          PROVE  \E e, y : Answer("update", "200", e, y)
      BY <3>4 DEF UpdateWrite
    <3>5. ASSUME NEW url, NEW name, Delete(url, name)
          PROVE  \E y : Answer("delete", "400", "none", y) \/ Answer("delete", "200", "own", y)
      BY <3>5 DEF Delete
    <3>6. ASSUME NEW op, InvalidToken(op) \/ EmptyField(op)
          PROVE  \E code, y : Answer(op, code, "none", y)
      BY <3>6 DEF InvalidToken, EmptyField, Turned
    <3>7. ASSUME NEW w \in Workers, Fail(w) PROVE answer' = answer  BY <3>7 DEF Fail, history
    <3>8. CASE UNCHANGED vars  BY <3>8 DEF vars, history
    <3>9. QED  BY <3>1, <3>2, <3>3, <3>4, <3>5, <3>6, <3>7, <3>8 DEF Next
  <2>2. QED  BY <2>1 DEF Answer, AnswerTells
<1>3. QED  BY <1>1, <1>2, PTL DEF Spec

-----------------------------------------------------------------------------
(* Documents appear only as additions, and keep their site: an update      *)
(* never brings a deleted account back (controll_data.py:126-127).         *)
THEOREM NothingResurrected == Spec => NoResurrection
<1>1. TypeOK /\ [Next]_vars =>
        [\A b \in vault' : \/ \E a \in vault : a.oid = b.oid /\ a.url = b.url
                           \/ \E w \in Workers : job[w].op = "add" /\ job[w].account = b]_vars
  <2> SUFFICES ASSUME TypeOK, Next, NEW b \in vault'
               PROVE  \/ \E a \in vault : a.oid = b.oid /\ a.url = b.url
                      \/ \E w \in Workers : job[w].op = "add" /\ job[w].account = b
    OBVIOUS
  <2>1. ASSUME vault' \subseteq vault PROVE \E a \in vault : a.oid = b.oid /\ a.url = b.url
    BY <2>1
  <2>2. ASSUME NEW w \in Workers, AddInsert(w)
        PROVE  b \in vault \/ (job[w].op = "add" /\ job[w].account = b)
    BY <2>2 DEF AddInsert
  <2>3. ASSUME NEW w \in Workers, UpdateWrite(w)
        PROVE  \E a \in vault : a.oid = b.oid /\ a.url = b.url
    <3>1. CASE vault' = vault  BY <3>1
    <3>2. ASSUME NEW a \in Targets(job[w]), vault' = (vault \ {a}) \cup {Updated(a, job[w])}
          PROVE  \E c \in vault : c.oid = b.oid /\ c.url = b.url
      <4>1. a \in vault /\ a \in Account  BY <3>2 DEF Targets, TypeOK
      <4>2. Updated(a, job[w]).oid = a.oid /\ Updated(a, job[w]).url = a.url
        BY <4>1 DEF Updated, Account
      <4>3. QED  BY <3>2, <4>1, <4>2
    <3>3. QED  BY <2>3, <3>1, <3>2 DEF UpdateWrite
  <2>4. ASSUME NEW w \in Workers, NEW x, AddLook(w, x) \/ UpdateLook(w, x) \/ AddArrive(w, x) \/ Fail(w)
        PROVE  vault' \subseteq vault
    BY <2>4 DEF AddLook, UpdateLook, AddArrive, Fail
  <2>5. ASSUME NEW w \in Workers, NEW url, NEW old, NEW name, NEW secret,
               UpdateArrive(w, url, old, name, secret)
        PROVE  vault' \subseteq vault
    BY <2>5 DEF UpdateArrive
  <2>6. ASSUME NEW url, NEW name, Delete(url, name) PROVE vault' \subseteq vault
    BY <2>6 DEF Delete
  <2>7. ASSUME NEW op, InvalidToken(op) \/ EmptyField(op) PROVE vault' \subseteq vault
    BY <2>7 DEF InvalidToken, EmptyField, Turned
  <2>8. QED  BY <2>1, <2>2, <2>3, <2>4, <2>5, <2>6, <2>7 DEF Next
<1>2. QED  BY <1>1, Typing, PTL DEF Spec, NoResurrection

-----------------------------------------------------------------------------
(* Additions that run together are in overlap; one that has looked for its *)
(* account, and seen it, knows of all that have the same site and name.    *)
Excused(p, q) == {p, q} \in overlap \/ {p, q} \cap (unchecked \cup renamed) # {}

Paired ==
    \A v, w \in Workers :
        v # w /\ job[v].op = "add" /\ job[w].op = "add"
        => {job[v].account.oid, job[w].account.oid} \in overlap

Looked ==
    \A w \in Workers :
        job[w].op = "add" /\ job[w].step = "insert" /\ ~job[w].blind
        => \A a \in vault : a.url = job[w].account.url /\ a.name = job[w].account.name
                              => Excused(a.oid, job[w].account.oid)

UniqueInv == Paired /\ Looked /\ KeyUniqueUnlessRaced

(* History only grows. *)
Grows == overlap \subseteq overlap' /\ unchecked \subseteq unchecked' /\ renamed \subseteq renamed'

LEMMA ExcusedStays ==
    ASSUME Grows, NEW p, NEW q, Excused(p, q)
    PROVE  Excused(p, q)'
BY DEF Grows, Excused

(* No addition goes on, and nothing new is in the vault. *)
LEMMA UniqueKept ==
    ASSUME UniqueInv, Grows, vault' \subseteq vault,
           \A w \in Workers : job'[w].op = "add" => job'[w] = job[w]
    PROVE  UniqueInv'
<1>1. Paired'  BY DEF UniqueInv, Paired, Grows
<1>2. Looked'  BY ExcusedStays DEF UniqueInv, Looked
<1>3. KeyUniqueUnlessRaced'
  BY ExcusedStays DEF UniqueInv, KeyUniqueUnlessRaced, Excused
<1>4. QED  BY <1>1, <1>2, <1>3 DEF UniqueInv

LEMMA LosingKeepsAdds ==
    ASSUME NEW a, NEW w \in Workers, Losing(job, a)[w].op = "add", TypeOK
    PROVE  Losing(job, a)[w] = job[w]
BY JobOfOp DEF Losing, Updating

LEMMA UniqueInductive == TypeOK /\ UniqueInv /\ [Next]_vars => UniqueInv'
<1> SUFFICES ASSUME TypeOK, UniqueInv, [Next]_vars PROVE UniqueInv'
  OBVIOUS
<1> USE DEF Grows
<1>1. ASSUME NEW w \in Workers, NEW a \in Account, AddArrive(w, a) PROVE UniqueInv'
  <2>1. /\ job[w] = Idle
        /\ job' = [job EXCEPT ![w] = [op |-> "add", step |-> "look", account |-> a, blind |-> FALSE]]
        /\ overlap' = overlap \cup
             {{a.oid, job[v].account.oid} : v \in {x \in Workers : job[x].op = "add"}}
        /\ UNCHANGED <<vault, unchecked, renamed>>
    BY <1>1 DEF AddArrive
  <2>2. /\ job'[w].op = "add" /\ job'[w].account = a /\ job'[w].step = "look"
        /\ \A v \in Workers : v # w => job'[v] = job[v]
    BY <2>1 DEF TypeOK
  <2>3. Paired'
    <3>1. SUFFICES ASSUME NEW v \in Workers, v # w, job[v].op = "add"
                   PROVE  {job[v].account.oid, a.oid} \in overlap'
      BY <2>1, <2>2 DEF UniqueInv, Paired
    <3>2. {a.oid, job[v].account.oid} \in overlap'  BY <2>1, <3>1
    <3>3. {a.oid, job[v].account.oid} = {job[v].account.oid, a.oid}  OBVIOUS
    <3>4. QED  BY <3>2, <3>3
  <2>4. Looked'  BY <2>1, <2>2, ExcusedStays DEF UniqueInv, Looked
  <2>5. KeyUniqueUnlessRaced'  BY <2>1 DEF UniqueInv, KeyUniqueUnlessRaced
  <2>6. QED  BY <2>3, <2>4, <2>5 DEF UniqueInv
<1>2. ASSUME NEW w \in Workers, NEW expired \in BOOLEAN, AddLook(w, expired) PROVE UniqueInv'
  <2>1. UNCHANGED <<vault, overlap, unchecked, renamed>>  BY <1>2 DEF AddLook
  <2>2. CASE Return(w)
    <3>1. \A v \in Workers : job'[v].op = "add" => job'[v] = job[v]
      BY <2>2 DEF Return, TypeOK, Idle
    <3>2. QED  BY <2>1, <3>1, UniqueKept
  <2>3. CASE /\ expired \/ ~Stored(job[w].account.url, job[w].account.name)
             /\ job' = [job EXCEPT ![w].step = "insert", ![w].blind = expired]
    <3>1. job[w] \in Adding  BY <1>2, JobOfOp DEF AddLook
    <3>2. /\ \A v \in Workers : v # w => job'[v] = job[v]
          /\ job'[w] = [[job[w] EXCEPT !.step = "insert"] EXCEPT !.blind = expired]
      BY <2>3 DEF TypeOK
    <3>3. job'[w].op = "add" /\ job'[w].account = job[w].account /\ job'[w].blind = expired
      BY <3>1, <3>2 DEF Adding
    <3>4. Paired'  BY <2>1, <3>1, <3>2, <3>3 DEF UniqueInv, Paired, Adding
    <3>5. Looked'
      <4>1. SUFFICES ASSUME NEW v \in Workers, job'[v].op = "add", job'[v].step = "insert",
                            ~job'[v].blind, NEW a \in vault, a.url = job'[v].account.url,
                            a.name = job'[v].account.name
                     PROVE  Excused(a.oid, job[v].account.oid)'
        BY <2>1 DEF Looked
      <4>2. CASE v = w
        BY <2>3, <3>3, <4>1, <4>2 DEF Stored
      <4>3. CASE v # w
        <5>1. job'[v] = job[v]  BY <3>2, <4>3
        <5>2. Excused(a.oid, job[v].account.oid)
          BY <4>1, <5>1 DEF UniqueInv, Looked
        <5>3. QED  BY <2>1, <5>1, <5>2 DEF Excused
      <4>4. QED  BY <4>2, <4>3
    <3>6. QED  BY <2>1, <3>4, <3>5 DEF UniqueInv, KeyUniqueUnlessRaced
  <2>4. QED  BY <1>2, <2>2, <2>3 DEF AddLook
<1>3. ASSUME NEW w \in Workers, AddInsert(w) PROVE UniqueInv'
  <2>0. PICK x : x = job[w].account  OBVIOUS
  <2>1. /\ job[w].op = "add" /\ job[w].step = "insert" /\ vault' = vault \cup {x}
        /\ job' = [job EXCEPT ![w] = Idle]
        /\ unchecked' = IF job[w].blind THEN unchecked \cup {x.oid} ELSE unchecked
        /\ UNCHANGED <<overlap, renamed>>
    BY <1>3, <2>0 DEF AddInsert, Return
  <2>2. \A v \in Workers : job'[v].op = "add" => v # w /\ job'[v] = job[v]
    BY <2>1 DEF TypeOK, Idle
  <2>3. Grows  BY <2>1
  <2>4. Paired'  BY <2>1, <2>2 DEF UniqueInv, Paired
  <2>5. Looked'
    <3>1. SUFFICES ASSUME NEW v \in Workers, job'[v].op = "add", job'[v].step = "insert",
                          ~job'[v].blind, NEW a \in vault', a.url = job'[v].account.url,
                          a.name = job'[v].account.name
                   PROVE  Excused(a.oid, job[v].account.oid)'
      BY DEF Looked
    <3>2. CASE a \in vault  BY <2>2, <2>3, <3>1, <3>2, ExcusedStays DEF UniqueInv, Looked
    <3>3. CASE a = x
      BY <2>0, <2>1, <2>2, <3>1, <3>3 DEF UniqueInv, Paired, Excused
    <3>4. QED  BY <2>1, <3>2, <3>3
  <2>6. \A a \in vault : a.url = x.url /\ a.name = x.name => Excused(a.oid, x.oid)'
    <3>1. CASE job[w].blind  BY <2>1, <3>1 DEF Excused
    <3>2. CASE ~job[w].blind  BY <2>0, <2>1, <2>3, <3>2, ExcusedStays DEF UniqueInv, Looked
    <3>3. QED  BY <3>1, <3>2
  <2>7. KeyUniqueUnlessRaced'
    <3>1. SUFFICES ASSUME NEW a \in vault', NEW b \in vault', a.url = b.url, a.name = b.name, a # b
                   PROVE  Excused(a.oid, b.oid)'
      BY DEF KeyUniqueUnlessRaced, Excused
    <3>2. CASE a \in vault /\ b \in vault
      BY <2>3, <3>1, <3>2, ExcusedStays DEF UniqueInv, KeyUniqueUnlessRaced, Excused
    <3>3. CASE b = x /\ a \in vault  BY <2>6, <3>1, <3>3
    <3>4. CASE a = x /\ b \in vault
      <4>1. Excused(b.oid, a.oid)'  BY <2>6, <3>1, <3>4
      <4>2. {a.oid, b.oid} = {b.oid, a.oid}  OBVIOUS
      <4>3. QED  BY <4>1, <4>2 DEF Excused
    <3>5. QED  BY <2>1, <3>1, <3>2, <3>3, <3>4
  <2>8. QED  BY <2>4, <2>5, <2>7 DEF UniqueInv
<1>4. ASSUME NEW w \in Workers, UpdateWrite(w) PROVE UniqueInv'
  <2>1. /\ job[w] \in Updating /\ UNCHANGED <<overlap, unchecked>>
    BY <1>4, JobOfOp DEF UpdateWrite
  <2>2. CASE Return(w) /\ UNCHANGED <<vault, renamed>>
    <3>1. \A v \in Workers : job'[v].op = "add" => job'[v] = job[v]
      BY <2>2 DEF Return, TypeOK, Idle
    <3>2. QED  BY <2>1, <2>2, <3>1, UniqueKept
  <2>3. ASSUME NEW a \in Targets(job[w]),
               vault' = (vault \ {a}) \cup {Updated(a, job[w])},
               renamed' = IF job[w].name # job[w].old THEN renamed \cup {a.oid} ELSE renamed,
               job' = [(IF job[w].name # job[w].old THEN Losing(job, a) ELSE job)
                         EXCEPT ![w] = Idle]
        PROVE  UniqueInv'
    <3>1. a \in vault /\ a \in Account /\ a.name = job[w].old  BY <2>3 DEF Targets, TypeOK
    <3>2. PICK u : u = Updated(a, job[w])  OBVIOUS
    <3>3. u.oid = a.oid /\ u.url = a.url /\ u.name = job[w].name
      BY <3>1, <3>2 DEF Updated, Account
    <3>4. \A v \in Workers : job'[v].op = "add" => job'[v] = job[v]
      <4>1. CASE job' = [job EXCEPT ![w] = Idle]  BY <4>1 DEF TypeOK, Idle
      <4>2. CASE job' = [Losing(job, a) EXCEPT ![w] = Idle]
        <5>1. DOMAIN Losing(job, a) = Workers  BY DEF Losing
        <5>2. \A v \in Workers : v # w => job'[v] = Losing(job, a)[v]  BY <4>2, <5>1
        <5>3. job'[w] = Idle  BY <4>2, <5>1
        <5>4. QED  BY <5>2, <5>3, LosingKeepsAdds DEF Idle
      <4>3. QED  BY <2>3, <4>1, <4>2
    <3>5. Grows  BY <2>1, <2>3
    <3>6. ASSUME NEW p, \A b \in vault : b.url = a.url /\ b.name = a.name => Excused(b.oid, p),
                 job[w].name = job[w].old
          PROVE  Excused(u.oid, p)'
      BY <3>1, <3>3, <3>5, <3>6, ExcusedStays
    <3>7. ASSUME NEW p, job[w].name # job[w].old PROVE Excused(u.oid, p)'
      BY <2>3, <3>3, <3>7 DEF Excused
    <3>8. Paired'  BY <3>4, <3>5 DEF UniqueInv, Paired
    <3>9. Looked'
      <4>1. SUFFICES ASSUME NEW v \in Workers, job'[v].op = "add", job'[v].step = "insert",
                            ~job'[v].blind, NEW b \in vault', b.url = job'[v].account.url,
                            b.name = job'[v].account.name
                     PROVE  Excused(b.oid, job[v].account.oid)'
        BY DEF Looked
      <4>2. job'[v] = job[v]  BY <3>4, <4>1
      <4>3. CASE b \in vault  BY <3>5, <4>1, <4>2, <4>3, ExcusedStays DEF UniqueInv, Looked
      <4>4. CASE b = u
        <5>1. PICK o : o = job[v].account.oid  OBVIOUS
        <5>2. Excused(u.oid, o)'
          <6>1. CASE job[w].name # job[w].old  BY <3>7, <6>1
          <6>2. CASE job[w].name = job[w].old
            <7>1. Excused(a.oid, o)
              BY <3>1, <3>3, <4>1, <4>2, <4>4, <5>1, <6>2 DEF UniqueInv, Looked
            <7>2. QED  BY <7>1, <3>3, <3>5, ExcusedStays
          <6>3. QED  BY <6>1, <6>2
        <5>3. QED  BY <4>2, <4>4, <5>1, <5>2
      <4>5. QED  BY <2>3, <3>2, <4>1, <4>3, <4>4
    <3>10. KeyUniqueUnlessRaced'
      <4>1. SUFFICES ASSUME NEW b \in vault', NEW c \in vault', b.url = c.url, b.name = c.name, b # c
                     PROVE  Excused(b.oid, c.oid)'
        BY DEF KeyUniqueUnlessRaced, Excused
      <4>2. CASE b \in vault /\ c \in vault
        BY <3>5, <4>1, <4>2, ExcusedStays DEF UniqueInv, KeyUniqueUnlessRaced, Excused
      <4>3. ASSUME NEW d \in vault \ {a}, d.url = u.url, d.name = u.name PROVE Excused(u.oid, d.oid)'
        <5>1. CASE job[w].name # job[w].old  BY <3>7, <5>1
        <5>2. CASE job[w].name = job[w].old
          <6>1. Excused(a.oid, d.oid)
            BY <3>1, <3>3, <4>3, <5>2 DEF UniqueInv, KeyUniqueUnlessRaced, Excused
          <6>2. QED  BY <6>1, <3>3, <3>5, ExcusedStays
        <5>3. QED  BY <5>1, <5>2
      <4>4. CASE b = u /\ c \in vault \ {a}  BY <4>1, <4>3, <4>4
      <4>5. CASE c = u /\ b \in vault \ {a}
        <5>1. Excused(c.oid, b.oid)'  BY <4>1, <4>3, <4>5
        <5>2. {c.oid, b.oid} = {b.oid, c.oid}  OBVIOUS
        <5>3. QED  BY <5>1, <5>2 DEF Excused
      <4>6. QED  BY <2>3, <3>2, <4>1, <4>2, <4>4, <4>5
    <3>11. QED  BY <3>8, <3>9, <3>10 DEF UniqueInv
  <2>4. QED  BY <1>4, <2>2, <2>3 DEF UpdateWrite
<1>5. ASSUME NEW url, NEW name, Delete(url, name) PROVE UniqueInv'
  <2>1. /\ vault' \subseteq vault /\ UNCHANGED <<overlap, unchecked, renamed>>
        /\ job' = job \/ \E a : job' = Losing(job, a)
    BY <1>5 DEF Delete
  <2>2. \A v \in Workers : job'[v].op = "add" => job'[v] = job[v]  BY <2>1, LosingKeepsAdds
  <2>3. QED  BY <2>1, <2>2, UniqueKept
<1>6. ASSUME NEW w \in Workers, NEW url, NEW old, NEW name, NEW secret,
             UpdateArrive(w, url, old, name, secret)
      PROVE  UniqueInv'
  <2>1. \A v \in Workers : job'[v].op = "add" => job'[v] = job[v]
    BY <1>6 DEF UpdateArrive, TypeOK
  <2>2. QED  BY <1>6, <2>1, UniqueKept DEF UpdateArrive, history
<1>7. ASSUME NEW w \in Workers, NEW expired, UpdateLook(w, expired) \/ Fail(w) PROVE UniqueInv'
  <2>1. \/ job' = [job EXCEPT ![w] = Idle]
        \/ job[w].op = "update" /\ job' = [job EXCEPT ![w].step = "write"]
    BY <1>7 DEF UpdateLook, Fail, Return
  <2>2. \A v \in Workers : v # w => job'[v] = job[v]  BY <2>1 DEF TypeOK
  <2>3. job'[w].op # "add"
    <3>1. CASE job' = [job EXCEPT ![w] = Idle]  BY <3>1 DEF TypeOK, Idle
    <3>2. CASE job[w].op = "update" /\ job' = [job EXCEPT ![w].step = "write"]
      <4>1. job[w] \in Updating  BY <3>2, JobOfOp
      <4>2. job'[w] = [job[w] EXCEPT !.step = "write"]  BY <3>2 DEF TypeOK
      <4>3. QED  BY <4>1, <4>2 DEF Updating
    <3>3. QED  BY <2>1, <3>1, <3>2
  <2>4. QED  BY <1>7, <2>2, <2>3, UniqueKept DEF UpdateLook, Fail, history
<1>8. ASSUME NEW op, InvalidToken(op) \/ EmptyField(op) PROVE UniqueInv'
  BY <1>8, UniqueKept DEF InvalidToken, EmptyField, Turned
<1>9. CASE UNCHANGED vars  BY <1>9, UniqueKept DEF vars, history
<1>10. QED
  BY <1>1, <1>2, <1>3, <1>4, <1>5, <1>6, <1>7, <1>8, <1>9 DEF Next

(* A site and a user name are stored twice only for one of the causes      *)
(* named, for any number of handlers (controll_data.py:57-88, 127).        *)
THEOREM KeysUnique == Spec => []KeyUniqueUnlessRaced
<1>1. Init => UniqueInv
  BY DEF Init, UniqueInv, Paired, Looked, KeyUniqueUnlessRaced, Idle
<1>2. UniqueInv => KeyUniqueUnlessRaced  BY DEF UniqueInv
<1>3. QED  BY <1>1, <1>2, Typing, UniqueInductive, PTL DEF Spec
-----------------------------------------------------------------------------
(* An update that has found its account and has not lost it will find it.  *)
Found(j) == \E a \in vault : a.url = j.url /\ a.name = j.old

Kept ==
    \A w \in Workers :
        job[w].op = "update" /\ job[w].step = "write" /\ ~job[w].lost => Found(job[w])

Writing(j) == j.op = "update" /\ j.step = "write" /\ ~j.lost

(* Losing touches only the updates of the account, and marks those lost.   *)
LEMMA LosingMarks ==
    ASSUME TypeOK, NEW a, NEW w \in Workers, Writing(Losing(job, a)[w])
    PROVE  /\ Losing(job, a)[w] = job[w]
           /\ ~(job[w].url = a.url /\ job[w].old = a.name)
BY JobOfOp DEF Losing, Updating, Writing

(* Nothing is taken from the vault, and no update goes on to its write.    *)
LEMMA KeptKept ==
    ASSUME Kept, vault \subseteq vault',
           \A w \in Workers : Writing(job'[w]) => job'[w] = job[w]
    PROVE  Kept'
BY DEF Kept, Writing, Found

LEMMA KeptInductive == TypeOK /\ Kept /\ [Next]_vars => Kept'
<1> SUFFICES ASSUME TypeOK, Kept, [Next]_vars PROVE Kept'
  OBVIOUS
<1>1. ASSUME NEW w \in Workers, NEW a \in Account, AddArrive(w, a) PROVE Kept'
  BY <1>1, KeptKept DEF AddArrive, TypeOK, Writing
<1>2. ASSUME NEW w \in Workers, NEW expired \in BOOLEAN, AddLook(w, expired) PROVE Kept'
  <2>1. job[w] \in Adding  BY <1>2, JobOfOp DEF AddLook
  <2>2. \/ job' = [job EXCEPT ![w] = Idle]
        \/ job' = [job EXCEPT ![w] = [[job[w] EXCEPT !.step = "insert"] EXCEPT !.blind = expired]]
    BY <1>2 DEF AddLook, Return, TypeOK
  <2>3. ~Writing([[job[w] EXCEPT !.step = "insert"] EXCEPT !.blind = expired])
    BY <2>1 DEF Adding, Writing
  <2>4. ~Writing(Idle)  BY DEF Idle, Writing
  <2>5. \A v \in Workers : Writing(job'[v]) => job'[v] = job[v]
    BY <2>2, <2>3, <2>4 DEF TypeOK
  <2>6. QED  BY <1>2, <2>5, KeptKept DEF AddLook
<1>3. ASSUME NEW w \in Workers, AddInsert(w) PROVE Kept'
  <2>1. \A v \in Workers : Writing(job'[v]) => job'[v] = job[v]
    BY <1>3 DEF AddInsert, Return, TypeOK, Idle, Writing
  <2>2. QED  BY <1>3, <2>1, KeptKept DEF AddInsert
<1>4. ASSUME NEW w \in Workers, UpdateWrite(w) PROVE Kept'
  <2>1. job[w] \in Updating  BY <1>4, JobOfOp DEF UpdateWrite
  <2>2. CASE Return(w) /\ UNCHANGED vault
    <3>1. \A v \in Workers : Writing(job'[v]) => job'[v] = job[v]
      BY <2>2 DEF Return, TypeOK, Idle, Writing
    <3>2. QED  BY <2>2, <3>1, KeptKept
  <2>3. ASSUME NEW a \in Targets(job[w]),
               vault' = (vault \ {a}) \cup {Updated(a, job[w])},
               job' = [(IF job[w].name # job[w].old THEN Losing(job, a) ELSE job)
                         EXCEPT ![w] = Idle]
        PROVE  Kept'
    <3>1. a \in vault /\ a \in Account /\ a.name = job[w].old  BY <2>3 DEF Targets, TypeOK
    <3>2. PICK u : u = Updated(a, job[w])  OBVIOUS
    <3>3. u.url = a.url /\ u.name = job[w].name  BY <3>1, <3>2 DEF Updated, Account
    <3>4. SUFFICES ASSUME NEW v \in Workers, Writing(job'[v])
                   PROVE  \E b \in vault' : b.url = job'[v].url /\ b.name = job'[v].old
      BY DEF Kept, Writing, Found
    <3>5. CASE job[w].name # job[w].old
      <4>1. DOMAIN Losing(job, a) = Workers  BY DEF Losing
      <4>2. job' = [Losing(job, a) EXCEPT ![w] = Idle]  BY <2>3, <3>5
      <4>3. v # w  BY <3>4, <4>1, <4>2 DEF Writing, Idle
      <4>4. job'[v] = Losing(job, a)[v]  BY <4>1, <4>2, <4>3
      <4>5. job'[v] = job[v] /\ ~(job[v].url = a.url /\ job[v].old = a.name)
        BY <3>4, <4>4, LosingMarks
      <4>6. PICK b \in vault : b.url = job[v].url /\ b.name = job[v].old
        BY <3>4, <4>5 DEF Kept, Writing, Found
      <4>7. QED  BY <2>3, <4>5, <4>6
    <3>6. CASE job[w].name = job[w].old
      <4>1. job' = [job EXCEPT ![w] = Idle]  BY <2>3, <3>6
      <4>2. job'[v] = job[v]  BY <3>4, <4>1 DEF Writing, Idle, TypeOK
      <4>3. PICK b \in vault : b.url = job[v].url /\ b.name = job[v].old
        BY <3>4, <4>2 DEF Kept, Writing, Found
      <4>4. CASE b = a  BY <2>3, <3>1, <3>2, <3>3, <3>6, <4>2, <4>3, <4>4
      <4>5. CASE b # a  BY <2>3, <4>2, <4>3, <4>5
      <4>6. QED  BY <4>4, <4>5
    <3>7. QED  BY <3>5, <3>6
  <2>4. QED  BY <1>4, <2>2, <2>3 DEF UpdateWrite
<1>5. ASSUME NEW url, NEW name, Delete(url, name) PROVE Kept'
  <2>1. CASE UNCHANGED <<vault, job>>  BY <2>1 DEF Kept, Found
  <2>2. ASSUME NEW a \in vault, vault' = vault \ {a}, job' = Losing(job, a) PROVE Kept'
    <3>1. SUFFICES ASSUME NEW v \in Workers, Writing(job'[v])
                   PROVE  \E b \in vault' : b.url = job'[v].url /\ b.name = job'[v].old
      BY DEF Kept, Writing, Found
    <3>2. job'[v] = job[v] /\ ~(job[v].url = a.url /\ job[v].old = a.name)
      BY <2>2, <3>1, LosingMarks
    <3>3. PICK b \in vault : b.url = job[v].url /\ b.name = job[v].old
      BY <3>1, <3>2 DEF Kept, Writing, Found
    <3>4. QED  BY <2>2, <3>2, <3>3
  <2>3. QED  BY <1>5, <2>1, <2>2 DEF Delete
<1>6. ASSUME NEW w \in Workers, NEW url, NEW old, NEW name, NEW secret,
             UpdateArrive(w, url, old, name, secret)
      PROVE  Kept'
  BY <1>6, KeptKept DEF UpdateArrive, TypeOK, Writing
<1>7. ASSUME NEW w \in Workers, NEW expired \in BOOLEAN, UpdateLook(w, expired) PROVE Kept'
  <2>1. CASE Return(w)
    <3>1. \A v \in Workers : Writing(job'[v]) => job'[v] = job[v]
      BY <2>1 DEF Return, TypeOK, Idle, Writing
    <3>2. QED  BY <1>7, <3>1, KeptKept DEF UpdateLook
  <2>2. CASE /\ job' = [job EXCEPT ![w].step = "write"]
             /\ Stored(job[w].url, job[w].old)
    <3>1. job[w] \in Updating  BY <1>7, JobOfOp DEF UpdateLook
    <3>2. /\ job'[w] = [job[w] EXCEPT !.step = "write"]
          /\ \A v \in Workers : v # w => job'[v] = job[v]
      BY <2>2 DEF TypeOK
    <3>3. job'[w].url = job[w].url /\ job'[w].old = job[w].old
      BY <3>1, <3>2 DEF Updating
    <3>4. vault' = vault  BY <1>7 DEF UpdateLook
    <3>5. QED  BY <2>2, <3>2, <3>3, <3>4 DEF Kept, Found, Stored
  <2>3. QED  BY <1>7, <2>1, <2>2 DEF UpdateLook
<1>8. ASSUME NEW w \in Workers, Fail(w) PROVE Kept'
  BY <1>8, KeptKept DEF Fail, Return, TypeOK, Idle, Writing
<1>9. ASSUME NEW op, InvalidToken(op) \/ EmptyField(op) PROVE Kept'
  BY <1>9, KeptKept DEF InvalidToken, EmptyField, Turned
<1>10. CASE UNCHANGED vars  BY <1>10, KeptKept DEF vars
<1>11. QED
  BY <1>1, <1>2, <1>3, <1>4, <1>5, <1>6, <1>7, <1>8, <1>9, <1>10 DEF Next

(* An update answered 200 has written its account or has one of the excuses*)
(* named: the account it found is still there when it writes, unless       *)
(* another handler took it away, and update_one finds that one or another  *)
(* site's with the same user name (controll_data.py:116-127).              *)
THEOREM UpdatesDone == Spec => []UpdateDoneUnlessExcused
<1>1. Init => Kept /\ UpdateDoneUnlessExcused
  BY DEF Init, Kept, UpdateDoneUnlessExcused, Idle
<1>2. TypeOK /\ Kept /\ UpdateDoneUnlessExcused /\ [Next]_vars => UpdateDoneUnlessExcused'
  <2> SUFFICES ASSUME TypeOK, Kept, UpdateDoneUnlessExcused, [Next]_vars
               PROVE  UpdateDoneUnlessExcused'
    OBVIOUS
  <2>1. ASSUME NEW w \in Workers, UpdateWrite(w) PROVE UpdateDoneUnlessExcused'
    <3>1. job[w] \in Updating  BY <2>1, JobOfOp DEF UpdateWrite
    <3>2. job[w].lost \/ \E b \in Targets(job[w]) : b.url = job[w].url
      BY <2>1, <3>1 DEF UpdateWrite, Kept, Found, Targets, Updating
    <3>3. CASE Targets(job[w]) = {} /\ Answer("update", "200", "none", job[w].lost)
      BY <3>2, <3>3 DEF Answer, UpdateDoneUnlessExcused
    <3>4. ASSUME NEW a \in Targets(job[w]),
                 Answer("update", "200", IF a.url = job[w].url THEN "own" ELSE "other",
                        job[w].lost \/ \E c, d \in Targets(job[w]) : c.url # d.url)
          PROVE  UpdateDoneUnlessExcused'
      <4>1. a.url = job[w].url \/ job[w].lost \/ \E c, d \in Targets(job[w]) : c.url # d.url
        BY <3>2
      <4>2. QED  BY <3>4, <4>1 DEF Answer, UpdateDoneUnlessExcused
    <3>5. QED  BY <2>1, <3>3, <3>4 DEF UpdateWrite
  <2>2. ASSUME \/ answer' = answer
               \/ \E op, code, e : Answer(op, code, e, TRUE)
               \/ \E op, e, x : Answer(op, "400", e, x)
               \/ \E code, e, x : Answer("add", code, e, x) \/ Answer("delete", code, e, x)
        PROVE  UpdateDoneUnlessExcused'
    BY <2>2 DEF Answer, UpdateDoneUnlessExcused
  <2>3. ASSUME NEW w \in Workers, NEW x, AddArrive(w, x) \/ Fail(w) PROVE answer' = answer
    BY <2>3 DEF AddArrive, Fail, history
  <2>4. ASSUME NEW w \in Workers, NEW url, NEW old, NEW name, NEW secret,
               UpdateArrive(w, url, old, name, secret)
        PROVE  answer' = answer
    BY <2>4 DEF UpdateArrive, history
  <2>5. ASSUME NEW w \in Workers, NEW x, AddLook(w, x) \/ UpdateLook(w, x) \/ AddInsert(w)
        PROVE  answer' = answer \/ \E op, e, y : Answer(op, "400", e, y)
    BY <2>5 DEF AddLook, UpdateLook, AddInsert
  <2>6. ASSUME NEW url, NEW name, Delete(url, name)
        PROVE  \E code, e, x : Answer("delete", code, e, x)
    BY <2>6 DEF Delete
  <2>7. ASSUME NEW op, InvalidToken(op) \/ EmptyField(op)
        PROVE  (\E code, e : Answer(op, code, e, TRUE)) \/ \E e, x : Answer(op, "400", e, x)
    BY <2>7 DEF InvalidToken, EmptyField, Turned
  <2>8. CASE UNCHANGED vars  BY <2>2, <2>8 DEF vars, history
  <2>9. QED  BY <2>1, <2>2, <2>3, <2>4, <2>5, <2>6, <2>7, <2>8 DEF Next
<1>3. QED  BY <1>1, <1>2, Typing, KeptInductive, PTL DEF Spec
=============================================================================
