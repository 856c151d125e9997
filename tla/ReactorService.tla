--------------------------- MODULE ReactorService ---------------------------
(***************************************************************************)
(* The event loop seen by its clients: the conditions under which it keeps *)
(* running and answers every request once, what its counter of requests    *)
(* says, and what it still does for clients that do not keep to the        *)
(* conditions.                                                             *)
(***************************************************************************)
EXTENDS Reactor, Functions

(* The main thread runs on: some step of the loop is taken as long as one  *)
(* is possible.                                                            *)
LoopFairness == WF_vars(LoopStep)

Client(A) == A /\ UNCHANGED <<connections, loopVars, metrics>>

(* Clients take the answers they are sent, the parts of a cut request      *)
(* arrive, and the host of a client that is gone answers with RST.         *)
NetworkFairness ==
    \A c \in Conn : /\ WF_vars(Client(Drain(c)))
                    /\ WF_vars(Client(SendRest(c)))
                    /\ WF_vars(Client(Refuse(c)))

(* No client stays connected for ever.                                     *)
LeavingFairness ==
    \A c \in Conn : WF_vars(Client(Leave(c, "closed") \/ CloseShut(c)))

FairSpec == Spec /\ LoopFairness /\ NetworkFairness

-----------------------------------------------------------------------------
(* Clients that send whole requests and wait for the answers.              *)

(* Nothing such clients do ends the event loop, though any Err that        *)
(* handle_request, close or register returns would: event_loop passes it   *)
(* on with `?`.                                                            *)
LoopSurvives == pc \notin {"failed", "panic", "ended"}

(* When the loop goes to sleep in epoll_wait, no request it has been sent  *)
(* is still without an answer.                                             *)
SleepsOnlyWhenAnswered ==
    pc = "wait" /\ Ready = {} =>
        \A c \in Conn : FdsOf(c) # {} => answers[c] = reqs[c]

(* The help text of requests_total (reactor.rs), "Total number of          *)
(* requests": it counts no more than the clients sent.                     *)
RequestsTotalIsRequests == requests_total <= SumFunction(reqs)

(* One answer per request, and every request is answered.                  *)
Service == INSTANCE HttpService WITH asked <- reqs, answered <- answers
ServiceSpec == Service!Spec

(* The same without its fairness.                                          *)
ServiceSafety == Service!Init /\ [][Service!Next]_(Service!vars)

(* What the server needs for that: clients that wait for each answer and   *)
(* whose requests are not cut, system calls that do not fail, and in       *)
(* FastPath mode requests for plain files only, with a descriptor to spare *)
(* for each connection, the listening socket and the file, which one write *)
(* takes whole.                                                            *)
WellBehaved ==
    /\ Patient
    /\ Cuts = {"none"}
    /\ Faults = {}
    /\ NoRequest \notin Request
    /\ \/ Mode = "DynamicPath"
       \/ /\ \A r \in Request : FileKind[r.path] \in {"missing", "regular"}
          /\ IsFiniteSet(FD) /\ IsFiniteSet(Conn)
          /\ Cardinality(Conn) + 1 < Cardinality(FD)
          /\ 1 + FileLen <= MaxWrite

InHand(c) == pc \in {"handle", "write"} /\ fdt[cur] = c

(* Why it is so.  A client has at most one request under way, whole, in    *)
(* its receive buffer or in the hands of the loop; the first one counts as *)
(* new input.  A client that has left has nothing under way, so no write   *)
(* meets a reset.                                                          *)
OneAtATime ==
    \A c \in Conn :
        /\ due[c] = <<>>
        /\ rx[c] = <<>> /\ ~InHand(c) => reqs[c] = answers[c]
        /\ rx[c] # <<>> \/ InHand(c) => reqs[c] = answers[c] + 1
        /\ rx[c] # <<>> => /\ ~InHand(c)
                          /\ Len(rx[c]) = 1 /\ rx[c][1].part = "all"
                          /\ c \in fresh
        /\ peer[c] \in InputOver => rx[c] = <<>> /\ ~InHand(c) /\ tx[c] = 0

(* The request in hand is whole, and one write takes its answer.           *)
HandledWhole ==
    /\ pc = "handle" => Len(buf) = 1 /\ buf[1].part = "all"
    /\ pc = "write" => resp.len <= MaxWrite

ServiceInvariant == OneAtATime /\ HandledWhole /\ LoopSurvives

-----------------------------------------------------------------------------
(* Clients that cut, pipeline and abandon requests at will.                *)

(* A client that closes, or is reset, does not keep its descriptor: FIN    *)
(* may hide behind data in one edge, but then the answer provokes an RST   *)
(* and a new edge.  A client that half-closes first, takes its answer and  *)
(* then closes is another matter: it sends nothing any more, and a FIN     *)
(* that was behind its request is never read.                              *)
HangupNoticed ==
    \A c \in Conn : peer[c] \in {"closed", "reset"} ~> FdsOf(c) = {}

(* The table is full of connections that half-closed and were not noticed. *)
HeldByHalfClosed ==
    \A fd \in FD \ {ListenFd} : fdt[fd] \in Conn /\ peer[fdt[fd]] \in {"shut", "gone"}

(* Where no client stays for ever, each connection is accepted however few *)
(* descriptors there are: accept that failed with EMFILE is tried again as *)
(* long as connections wait.  The one thing that can keep a connection     *)
(* waiting for ever is a descriptor table that clients which half-closed   *)
(* before they closed hold for ever.                                       *)
BacklogServed ==
    LeavingFairness => \/ \A c \in Conn : c \in backlog ~> c \notin backlog
                       \/ <>[]HeldByHalfClosed
=============================================================================
