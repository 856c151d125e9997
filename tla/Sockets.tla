------------------------------ MODULE Sockets ------------------------------
(***************************************************************************)
(* What the server runs on: the descriptor table, the listening socket and *)
(* the accepted sockets of the Linux kernel, the epoll interest and ready  *)
(* lists, and the clients at the far end.  External to the repository, and *)
(* modelled from the system calls that src/net/epoll.rs and                *)
(* src/worker/reactor.rs make.                                             *)
(*                                                                         *)
(* Accepted sockets are blocking (accept does not inherit O_NONBLOCK) and  *)
(* edge-triggered; the listening socket is non-blocking and                *)
(* level-triggered.  Every event TCP raises for EPOLLIN interest (data,    *)
(* FIN, RST) carries EPOLLIN, so event flags are not kept.                 *)
(***************************************************************************)
EXTENDS Http, FiniteSets

CONSTANTS
    FD,         \* descriptor numbers, RLIMIT_NOFILE of them
    ListenFd,   \* the listening socket's descriptor
    Free,       \* an unused descriptor
    Listener,   \* the listening socket
    Backlog,    \* listen(fd, 128)
    SndBuf,     \* units the send buffer of a socket holds
    Patient,    \* TRUE: clients wait for the answer before they go on
    Cuts,       \* how the network may cut a request: "none", "head", "body"
    MaxReq      \* bound on the requests of one connection

ASSUME SocketAssumption ==
    /\ IsFiniteSet(FD) /\ ListenFd \in FD
    /\ Free \notin Conn
    /\ Listener \notin Conn \cup {Free}
    /\ Backlog \in Nat \ {0}
    /\ SndBuf \in Nat \ {0}
    /\ Patient \in BOOLEAN
    /\ Cuts \subseteq {"none", "head", "body"}
    /\ MaxReq \in Nat

VARIABLES
    fdt,        \* descriptor -> what it refers to
    backlog,    \* connections waiting in the listen queue
    peer,       \* how far each client has got with its connection
    rx,         \* units received and not yet read by the server
    tx,         \* units the server wrote that the client has not yet taken
    interest,   \* epoll interest list
    ready,      \* epoll ready list
    due,        \* parts of a cut request that are still on their way
    reqs,       \* requests each client has begun to send
    answers,    \* answers written in full to each client
    fresh       \* history: connections with input since they were last read

kernelVars == <<fdt, backlog, peer, rx, tx, interest, ready>>
clientVars == <<due, reqs, answers, fresh>>

(* "shut": the client sent FIN and still reads; "closed": it closed with   *)
(* the FIN; "gone": it closed after it had sent the FIN; "reset": RST was  *)
(* received; "done": the server closed.                                    *)
PeerState == {"none", "up", "shut", "closed", "gone", "reset", "done"}

(* The end of the client's stream, or an error in its place, is there.     *)
InputOver == {"shut", "closed", "gone", "reset"}

SocketsInit ==
    /\ fdt = [fd \in FD |-> IF fd = ListenFd THEN Listener ELSE Free]
    /\ backlog = {}
    /\ peer = [c \in Conn |-> "none"]
    /\ rx = [c \in Conn |-> <<>>]
    /\ tx = [c \in Conn |-> 0]
    /\ due = [c \in Conn |-> <<>>]
    /\ reqs = [c \in Conn |-> 0]
    /\ answers = [c \in Conn |-> 0]
    /\ fresh = {}

FdsOf(c) == {fd \in FD : fdt[fd] = c}

OpenFds == {fd \in FD : fdt[fd] # Free}

CanOpen == OpenFds # FD

(* read() on the socket returns at once: with data, with 0 or with Err.    *)
Readable(c) == rx[c] # <<>> \/ peer[c] \in InputOver

Pollable(fd) ==
    IF fdt[fd] = Listener THEN backlog # {} ELSE Readable(fdt[fd])

(* Input for c: an edge for the descriptors of c that epoll watches.       *)
Arrival(c) ==
    /\ ready' = ready \cup (FdsOf(c) \cap interest)
    /\ fresh' = fresh \cup {c}

-----------------------------------------------------------------------------
(* Clients *)

(* All requests answered and the answers taken.                            *)
Settled(c) == due[c] = <<>> /\ answers[c] = reqs[c] /\ tx[c] = 0

MayAct(c) == Patient => Settled(c)

Connect(c) ==
    /\ peer[c] = "none"
    /\ fdt[ListenFd] = Listener
    /\ Cardinality(backlog) < Backlog
    /\ peer' = [peer EXCEPT ![c] = "up"]
    /\ backlog' = backlog \cup {c}
    /\ ready' = ready \cup ({ListenFd} \cap interest)
    /\ UNCHANGED <<fdt, rx, tx, interest, clientVars>>

FirstPart(cut) == CASE cut = "none" -> "all" [] cut = "head" -> "fst" [] OTHER -> "hdr"
RestParts(cut) == CASE cut = "none" -> <<>> [] cut = "head" -> <<"snd">> [] OTHER -> <<"body">>

SendRequest(c, r, cut) ==
    /\ peer[c] = "up"
    /\ due[c] = <<>>
    /\ reqs[c] < MaxReq
    /\ MayAct(c)
    /\ rx' = [rx EXCEPT ![c] = Append(@, [from |-> c, req |-> r, part |-> FirstPart(cut)])]
    /\ due' = [due EXCEPT ![c] = [i \in DOMAIN RestParts(cut) |->
                                    [from |-> c, req |-> r, part |-> RestParts(cut)[i]]]]
    /\ reqs' = [reqs EXCEPT ![c] = @ + 1]
    /\ Arrival(c)
    /\ UNCHANGED <<fdt, backlog, peer, tx, interest, answers>>

SendRest(c) ==
    /\ peer[c] = "up"
    /\ due[c] # <<>>
    /\ rx' = [rx EXCEPT ![c] = Append(@, Head(due[c]))]
    /\ due' = [due EXCEPT ![c] = Tail(@)]
    /\ Arrival(c)
    /\ UNCHANGED <<fdt, backlog, peer, tx, interest, reqs, answers>>

(* The client stops sending ("shut"), closes, or aborts its connection:    *)
(* FIN, or RST, arrives.                                                   *)
Leave(c, how) ==
    /\ \/ peer[c] = "up"
       \/ peer[c] = "shut" /\ how = "reset"
    /\ MayAct(c)
    /\ peer' = [peer EXCEPT ![c] = how]
    /\ due' = [due EXCEPT ![c] = <<>>]
    /\ Arrival(c)
    /\ UNCHANGED <<fdt, backlog, rx, tx, interest, reqs, answers>>

(* The client closes after its FIN: TCP sends nothing, and the server gets *)
(* no event.                                                               *)
CloseShut(c) ==
    /\ peer[c] = "shut"
    /\ MayAct(c)
    /\ peer' = [peer EXCEPT ![c] = "gone"]
    /\ UNCHANGED <<fdt, backlog, rx, tx, interest, ready, clientVars>>

Drain(c) ==
    /\ peer[c] \in {"up", "shut"}
    /\ tx[c] > 0
    /\ tx' = [tx EXCEPT ![c] = @ - 1]
    /\ UNCHANGED <<fdt, backlog, peer, rx, interest, ready, clientVars>>

(* Data for a client that is gone is answered with RST.                    *)
Refuse(c) ==
    /\ peer[c] \in {"closed", "gone"}
    /\ tx[c] > 0
    /\ peer' = [peer EXCEPT ![c] = "reset"]
    /\ Arrival(c)
    /\ UNCHANGED <<fdt, backlog, rx, tx, interest, due, reqs, answers>>

ClientStep(c) ==
    \/ Connect(c)
    \/ \E r \in Request, cut \in Cuts : SendRequest(c, r, cut)
    \/ SendRest(c)
    \/ \E how \in {"shut", "closed", "reset"} : Leave(c, how)
    \/ CloseShut(c)
    \/ Drain(c)
    \/ Refuse(c)

(* The process gives up the sockets of the connections in gone.            *)
Hangup(gone) ==
    /\ peer' = [c \in Conn |-> IF c \in gone THEN "done" ELSE peer[c]]
    /\ rx' = [c \in Conn |-> IF c \in gone THEN <<>> ELSE rx[c]]
    /\ tx' = [c \in Conn |-> IF c \in gone THEN 0 ELSE tx[c]]
    /\ due' = [c \in Conn |-> IF c \in gone THEN <<>> ELSE due[c]]
    /\ fresh' = fresh \ gone
=============================================================================
