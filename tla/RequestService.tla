--------------------------- MODULE RequestService ---------------------------
(***************************************************************************)
(* What the server promises its clients, without threads, sockets, slots   *)
(* or files: a client that asks is answered once and with something its    *)
(* request allows, unless it leaves or the whole service goes down.        *)
(***************************************************************************)
CONSTANTS Clients,
          Exact,     \* client -> the answer to the request it asked whole
          Possible,  \* client -> the answers to a request asked in pieces
          None       \* not answered

VARIABLES up,      \* the service has not gone down
          asked,   \* client -> "no", "whole" or "pieces"
          here,    \* client -> it has not left
          answer   \* client -> what it was answered

vars == <<up, asked, here, answer>>

Init == /\ up = TRUE
        /\ asked = [c \in Clients |-> "no"]
        /\ here = [c \in Clients |-> TRUE]
        /\ answer = [c \in Clients |-> None]

Ask(c) == /\ up
          /\ here[c]
          /\ asked[c] = "no"
          /\ \E how \in {"whole", "pieces"} : asked' = [asked EXCEPT ![c] = how]
          /\ UNCHANGED <<up, here, answer>>

Allowed(c) == IF asked[c] = "whole" THEN {Exact[c]} ELSE Possible[c]

Answer(c) == /\ up
             /\ here[c]
             /\ asked[c] # "no"
             /\ answer[c] = None
             /\ \E a \in Allowed(c) : answer' = [answer EXCEPT ![c] = a]
             /\ UNCHANGED <<up, asked, here>>

Leave(c) == /\ up
            /\ here[c]
            /\ here' = [here EXCEPT ![c] = FALSE]
            /\ UNCHANGED <<up, asked, answer>>

GoDown == up /\ up' = FALSE /\ UNCHANGED <<asked, here, answer>>

Next == GoDown \/ \E c \in Clients : Ask(c) \/ Answer(c) \/ Leave(c)

Spec == /\ Init /\ [][Next]_vars
        /\ \A c \in Clients : WF_vars(Answer(c))
=============================================================================
