------------------------------ MODULE Service ------------------------------
(***************************************************************************)
(* What the bridge promises a client, without streams, timeouts or waits:  *)
(* a request that was sent is answered once, by what fits the question,    *)
(* whoever stays is given the whole of it, and nothing comes afterwards.   *)
(* A request may also end without an answer.                               *)
(***************************************************************************)
CONSTANTS Clients, Questions,
          Replies,              \* for each question, what fits it
          NoQuestion, NoReply

VARIABLES asked, sent, gone,    \* what is asked; who has sent it; who has left
          written,              \* the answer, from when it is made
          state, given          \* how far a request is; what its client is given

vars == <<asked, sent, gone, written, state, given>>

Init ==
    /\ asked = [c \in Clients |-> NoQuestion] /\ sent = {} /\ gone = {}
    /\ written = [c \in Clients |-> NoReply]
    /\ state = [c \in Clients |-> "idle"]
    /\ given = [c \in Clients |-> NoReply]

Ask(c) ==
    /\ state[c] = "idle"
    /\ \E q \in Questions : asked' = [asked EXCEPT ![c] = q]
    /\ state' = [state EXCEPT ![c] = "open"]
    /\ UNCHANGED <<sent, gone, written, given>>

Send(c) ==
    /\ state[c] = "open" /\ written[c] = NoReply
    /\ sent' = sent \cup {c}
    /\ UNCHANGED <<asked, gone, written, state, given>>

Leave ==
    /\ \E cs \in SUBSET Clients : gone' = gone \cup cs
    /\ UNCHANGED <<asked, sent, written, state, given>>

Write(c) ==
    /\ state[c] = "open" /\ c \in sent /\ written[c] = NoReply
    /\ \E a \in Replies[asked[c]] : written' = [written EXCEPT ![c] = a]
    /\ UNCHANGED <<asked, sent, gone, state, given>>

Deliver(c) ==
    /\ state[c] = "open" /\ written[c] # NoReply
    /\ state' = [state EXCEPT ![c] = "ended"]
    /\ given' = [given EXCEPT ![c] = written[c]]
    /\ UNCHANGED <<asked, sent, gone, written>>

End(c) ==
    /\ state[c] = "open" /\ (written[c] = NoReply \/ c \in gone)
    /\ state' = [state EXCEPT ![c] = "ended"]
    /\ UNCHANGED <<asked, sent, gone, written, given>>

Next == Leave \/ \E c \in Clients : Ask(c) \/ Send(c) \/ Write(c) \/ Deliver(c) \/ End(c)

Spec == Init /\ [][Next]_vars
=============================================================================
