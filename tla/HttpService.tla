---------------------------- MODULE HttpService ----------------------------
(***************************************************************************)
(* What a keep-alive HTTP/1.1 server promises a client that waits for each *)
(* answer: every request gets exactly one answer, and gets it eventually.  *)
(***************************************************************************)
EXTENDS Naturals

CONSTANT Conn

VARIABLES asked, answered

vars == <<asked, answered>>

Init ==
    /\ asked = [c \in Conn |-> 0]
    /\ answered = [c \in Conn |-> 0]

Ask(c) ==
    /\ asked[c] = answered[c]
    /\ asked' = [asked EXCEPT ![c] = @ + 1]
    /\ UNCHANGED answered

Respond(c) ==
    /\ asked[c] = answered[c] + 1
    /\ answered' = [answered EXCEPT ![c] = @ + 1]
    /\ UNCHANGED asked

Next == \E c \in Conn : Ask(c) \/ Respond(c)

Spec == Init /\ [][Next]_vars /\ \A c \in Conn : WF_vars(Respond(c))
=============================================================================
