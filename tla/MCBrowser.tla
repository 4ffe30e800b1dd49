----------------------------- MODULE MCBrowser -----------------------------
(* A small instance of Browser: the page "http://a/x" has three accounts   *)
(* (one with a name of two characters, two of one name, of which an update *)
(* can make the second; the password of the last has three characters, in  *)
(* blocks of two), "https://b/%63?c" one with a % in its password.         *)
EXTENDS Browser

MCPages == {1, 2}

MCAddress == <<<<256, 97, 47, 120>>, <<257, 98, 47, 37, 54, 51, 63, 99>>>>

MCAccounts == <<[site |-> <<97>>, name |-> <<110, 49>>, password |-> <<120>>],
                [site |-> <<97>>, name |-> <<110>>, password |-> <<121>>],
                [site |-> <<97>>, name |-> <<110>>, password |-> <<120, 121, 122>>],
                [site |-> <<98>>, name |-> <<110>>, password |-> <<37, 115>>]>>

Budget(q, y, p, t, g, e) ==
    [queries |-> q, typed |-> y, popup |-> p, ticks |-> t, gui |-> g, events |-> e]

(* Two requests of the popup, with streams that may time out; the popup    *)
(* and the content script, with a login in the GUI; the content script     *)
(* alone, with two, also one in the wait of the other; the background page *)
(* and the popup, with a time out; the background page twice, with a login *)
(* and a tab that changes twice.                                           *)
MCBudgets == {Budget(0, 0, 2, 2, 0, 0), Budget(0, 1, 1, 0, 1, 0), Budget(0, 1, 0, 0, 2, 0),
              Budget(1, 0, 1, 1, 0, 1), Budget(2, 0, 0, 0, 1, 2)}
=============================================================================
