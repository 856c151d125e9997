--------------------------- MODULE ReactorProofs ---------------------------
(***************************************************************************)
(* Proofs about the event loop: its safety (module Reactor), for any       *)
(* number of connections, descriptors and requests, any batch size, buffer *)
(* size and file, and any of the faults; then the service it gives (module *)
(* ReactorService) to any number of well-behaved clients, on any number of *)
(* descriptors that is large enough.                                       *)
(***************************************************************************)
EXTENDS ReactorService, Recursion, FiniteSetTheorems, SequenceTheorems

-----------------------------------------------------------------------------
(* Operators *)

(* Every outcome of handle_request is an answer, whatever parse made of    *)
(* the buffer.                                                             *)
LEMMA AnswerType ==
    ASSUME NEW r, NEW b \in BOOLEAN
    PROVE  AnswerTo(r, b) \in Answer
  <1>1. Reply(404, 1) \in Answer /\ Reply(400, 1) \in Answer /\ Reply(200, 1) \in Answer
    BY DEF Reply, Answer
  <1>2. Reply(200, 1 + FileLen) \in Answer
    BY HttpAssumption DEF Reply, Answer
  <1>3. Failure("err") \in Answer /\ Failure("panic") \in Answer
    BY DEF Failure, Answer
  <1>4. HandleStaticFile(r, b) \in Answer
    BY <1>1, <1>2, <1>3 DEF HandleStaticFile, NotFound
  <1>5. HandleDynamic(r) \in Answer
    BY <1>1 DEF HandleDynamic, NotFound
  <1> QED
    BY <1>1, <1>4, <1>5 DEF AnswerTo, BadRequest

(* The empty answer the loop holds between two requests.                   *)
LEMMA NoAnswerType == NoAnswer \in Answer
  BY DEF NoAnswer, Reply, Answer

(* read() takes no more than there is.                                     *)
LEMMA ReadLenBounds ==
    ASSUME TypeOK, NEW c \in Conn
    PROVE  ReadLen(c) \in 0..Len(rx[c])
  <1>1. Len(rx[c]) \in Nat
    BY DEF TypeOK
  <1> QED
    BY <1>1, EpollAssumption DEF ReadLen

(* The bytes read are a prefix of the bytes received ...                   *)
LEMMA ReadDataIsPrefix ==
    ASSUME TypeOK, NEW c \in Conn
    PROVE  /\ ReadData(c) \in Seq(Unit)
           /\ \A i \in DOMAIN ReadData(c) : i \in DOMAIN rx[c] /\ ReadData(c)[i] = rx[c][i]
  <1>1. rx[c] \in Seq(Unit) /\ ReadLen(c) \in 0..Len(rx[c])
    BY ReadLenBounds DEF TypeOK
  <1> QED
    BY <1>1 DEF ReadData

(* ... and the rest stays.                                                 *)
LEMMA ReadLeavesRest ==
    ASSUME TypeOK, NEW c \in Conn,
           NEW rest, rest = SubSeq(rx[c], ReadLen(c) + 1, Len(rx[c]))
    PROVE  /\ rest \in Seq(Unit)
           /\ \A i \in DOMAIN rest : i + ReadLen(c) \in DOMAIN rx[c]
                                       /\ rest[i] = rx[c][i + ReadLen(c)]
  <1>1. rx[c] \in Seq(Unit) /\ ReadLen(c) \in 0..Len(rx[c])
    BY ReadLenBounds DEF TypeOK
  <1> QED
    BY <1>1

(* The parts of one request.                                               *)
LEMMA PartTypes ==
    ASSUME NEW c \in Conn, NEW r \in Request, NEW cut,
           NEW rest, rest = [i \in DOMAIN RestParts(cut) |->
                               [from |-> c, req |-> r, part |-> RestParts(cut)[i]]]
    PROVE  /\ [from |-> c, req |-> r, part |-> FirstPart(cut)] \in Unit
           /\ rest \in Seq(Unit)
           /\ \A i \in DOMAIN rest : rest[i].from = c
  <1>1. FirstPart(cut) \in Part
    BY DEF FirstPart, Part
  <1>2. RestParts(cut) \in {<<>>, <<"snd">>, <<"body">>}
    BY DEF RestParts
  <1>3. CASE RestParts(cut) = <<>>
    BY <1>1, <1>3 DEF Unit
  <1>4. CASE RestParts(cut) = <<"snd">>
    <2>1. [from |-> c, req |-> r, part |-> "snd"] \in Unit
      BY DEF Unit, Part
    <2>2. rest = <<[from |-> c, req |-> r, part |-> "snd"]>>
      BY <1>4
    <2> QED
      BY <1>1, <2>1, <2>2 DEF Unit
  <1>5. CASE RestParts(cut) = <<"body">>
    <2>1. [from |-> c, req |-> r, part |-> "body"] \in Unit
      BY DEF Unit, Part
    <2>2. rest = <<[from |-> c, req |-> r, part |-> "body"]>>
      BY <1>5
    <2> QED
      BY <1>1, <2>1, <2>2 DEF Unit
  <1> QED
    BY <1>2, <1>3, <1>4, <1>5

(* Appending a unit of c to a stream of c's units.                         *)
LEMMA AppendKeepsOwner ==
    ASSUME NEW c, NEW q \in Seq(Unit), NEW u \in Unit, u.from = c,
           \A i \in DOMAIN q : q[i].from = c
    PROVE  /\ Append(q, u) # <<>>
           /\ \A i \in DOMAIN Append(q, u) : Append(q, u)[i].from = c
  OBVIOUS

-----------------------------------------------------------------------------
(* Type correctness *)

LEMMA InitTypeOK == Init => TypeOK
  <1> SUFFICES ASSUME Init PROVE TypeOK
    OBVIOUS
  <1>1. <<>> \in Seq(Unit)
    OBVIOUS
  <1> QED
    BY <1>1, NoAnswerType, SocketAssumption
    DEF Init, SocketsInit, EpollInit, TypeOK, PeerState, PcState

(* A client changes only its own end of the connection.                    *)
LEMMA ClientTypeOK ==
    ASSUME TypeOK, NEW c \in Conn, ClientStep(c),
           UNCHANGED <<connections, loopVars, metrics>>
    PROVE  TypeOK'
  <1> USE DEF TypeOK, PeerState, loopVars, metrics, clientVars
  <1>1. CASE Connect(c)
    BY <1>1, SocketAssumption DEF Connect
  <1>2. ASSUME NEW r \in Request, NEW cut \in Cuts, SendRequest(c, r, cut)
        PROVE  TypeOK'
    <2> DEFINE unit == [from |-> c, req |-> r, part |-> FirstPart(cut)]
               rest == [i \in DOMAIN RestParts(cut) |->
                          [from |-> c, req |-> r, part |-> RestParts(cut)[i]]]
    <2>1. unit \in Unit /\ rest \in Seq(Unit)
      BY PartTypes
    <2> HIDE DEF unit, rest
    <2>2. rx' = [rx EXCEPT ![c] = Append(@, unit)] /\ due' = [due EXCEPT ![c] = rest]
      BY <1>2 DEF SendRequest, unit, rest
    <2>3. rx' \in [Conn -> Seq(Unit)] /\ due' \in [Conn -> Seq(Unit)]
      BY <2>1, <2>2
    <2>4. reqs' \in [Conn -> Nat] /\ fresh' \subseteq Conn /\ ready' \subseteq FD
      BY <1>2 DEF SendRequest, Arrival, FdsOf
    <2> QED
      BY <1>2, <2>3, <2>4 DEF SendRequest
  <1>3. CASE SendRest(c)
    <2>1. Head(due[c]) \in Unit /\ Tail(due[c]) \in Seq(Unit)
      BY <1>3 DEF SendRest
    <2>2. rx' \in [Conn -> Seq(Unit)] /\ due' \in [Conn -> Seq(Unit)]
      BY <1>3, <2>1 DEF SendRest
    <2> QED
      BY <1>3, <2>2 DEF SendRest, Arrival, FdsOf
  <1>4. ASSUME NEW how \in {"shut", "closed", "reset"}, Leave(c, how)
        PROVE  TypeOK'
    BY <1>4 DEF Leave, Arrival, FdsOf
  <1>5. CASE Drain(c)
    BY <1>5 DEF Drain
  <1>6. CASE Refuse(c)
    BY <1>6 DEF Refuse, Arrival, FdsOf
  <1>7. CASE CloseShut(c)
    BY <1>7 DEF CloseShut
  <1> QED
    BY <1>1, <1>2, <1>3, <1>4, <1>5, <1>6, <1>7 DEF ClientStep

(* Giving up sockets keeps the types of what the clients see.              *)
LEMMA HangupType ==
    ASSUME TypeOK, NEW gone, Hangup(gone)
    PROVE  /\ peer' \in [Conn -> PeerState]
           /\ rx' \in [Conn -> Seq(Unit)]
           /\ tx' \in [Conn -> Nat]
           /\ due' \in [Conn -> Seq(Unit)]
           /\ fresh' \subseteq Conn
  <1>1. <<>> \in Seq(Unit)
    OBVIOUS
  <1> QED
    BY <1>1 DEF TypeOK, Hangup, PeerState

(* A descriptor of the map other than the listening socket's is the socket *)
(* of a client.                                                            *)
LEMMA ClientDescriptor ==
    ASSUME LoopInvariant, NEW fd \in connections \ {ListenFd}
    PROVE  fdt[fd] \in Conn
  BY SocketAssumption
  DEF LoopInvariant, TypeOK, ConnectionsMirrorEpoll, ListenerOwned, OpenFds

LEMMA LoopTypeOK ==
    ASSUME LoopInvariant, LoopStep
    PROVE  TypeOK'
  <1>0. TypeOK
    BY DEF LoopInvariant
  <1> USE <1>0, NoAnswerType DEF TypeOK, PcState, kernelVars, clientVars, loopVars, metrics
  <1>1. CASE Wait
    BY <1>1 DEF Wait, ProcessEvents, Ready, Proceed
  <1>2. CASE WaitFails
    BY <1>2 DEF WaitFails
  <1>3. CASE ListenEvent
    BY <1>3 DEF ListenEvent
  <1>4. CASE AcceptOne
    BY <1>4 DEF AcceptOne, Accept, Register
  <1>5. CASE RegisterFails
    BY <1>5 DEF RegisterFails, Accept
  <1>6. CASE AcceptEnds
    BY <1>6 DEF AcceptEnds, AcceptReturnsErr, Proceed
  <1>7. CASE ReadRequest
    <2>1. PICK fd \in events \ {ListenFd} :
             buf' = ReadData(fdt[fd]) /\ Read(fdt[fd]) /\ cur' = fd /\ events' = events \ {fd}
      BY <1>7 DEF ReadRequest, Receives
    <2>2. fdt[fd] \in Conn
      BY <2>1, ClientDescriptor DEF LoopInvariant, NoBlockingRead
    <2>3. buf' \in Seq(Unit)
      BY <2>1, <2>2, ReadDataIsPrefix
    <2>4. rx' \in [Conn -> Seq(Unit)]
      BY <2>1, <2>2, ReadLeavesRest DEF Read
    <2> QED
      BY <1>7, <2>1, <2>3, <2>4 DEF ReadRequest, Receives, Read
  <1>8. CASE ReadEnds \/ CloseFails
    <2>1. PICK fd \in events : /\ ReadsNothing(fd)
                               /\ events' = events \ {fd}
                               /\ pc' \in {"wait", "dispatch", "failed"}
      BY <1>8 DEF ReadEnds, CloseFails, Proceed
    <2>2. /\ peer' \in [Conn -> PeerState]
          /\ rx' \in [Conn -> Seq(Unit)]
          /\ tx' \in [Conn -> Nat]
          /\ due' \in [Conn -> Seq(Unit)]
          /\ fresh' \subseteq Conn
      BY <2>1, HangupType DEF ReadsNothing, Close, Unregister
    <2> QED
      BY <2>1, <2>2 DEF ReadsNothing, Close, Unregister
  <1>9. CASE HandleRequest
    <2>1. CanOpen \in BOOLEAN
      BY DEF CanOpen
    <2>2. PICK r \in Parse(buf) : resp' = AnswerTo(r, CanOpen)
      BY <1>9, ZenonT(60) DEF HandleRequest
    <2>3. resp' \in Answer
      BY <2>1, <2>2, AnswerType, ZenonT(60)
    <2>4. pc' = "write" \/ pc' = "failed" \/ pc' = "panic"
      <3> HIDE DEF TypeOK, PcState
      <3> QED
        BY <1>9, ZenonT(60) DEF HandleRequest
    <2> QED
      BY <1>9, <2>3, <2>4 DEF HandleRequest
  <1>10. CASE WriteCopies
    <2>1. fdt[cur] \in Conn
      BY <1>10, ClientDescriptor DEF WriteCopies, LoopInvariant, AnswerGoesToSender
    <2>2. tx' \in [Conn -> Nat] /\ sent' \in Nat
      BY <1>10, <2>1 DEF WriteCopies
    <2> QED
      BY <1>10, <2>2 DEF WriteCopies
  <1>11. ASSUME Finish, answers' \in [Conn -> Nat]
         PROVE  TypeOK'
    BY <1>11 DEF Finish, Over, Proceed, Answer
  <1>12. CASE WriteReturns
    <2>1. fdt[cur] \in Conn
      BY <1>12, ClientDescriptor DEF WriteReturns, LoopInvariant, AnswerGoesToSender
    <2>2. answers' \in [Conn -> Nat]
      BY <1>12, <2>1 DEF WriteReturns
    <2> QED
      BY <1>12, <2>2, <1>11 DEF WriteReturns
  <1>13. CASE WriteCutShort
    BY <1>13, <1>11 DEF WriteCutShort
  <1>14. CASE WriteFails
    BY <1>14 DEF WriteFails
  <1>15. CASE Unwind
    <2>1. /\ peer' \in [Conn -> PeerState]
          /\ rx' \in [Conn -> Seq(Unit)]
          /\ tx' \in [Conn -> Nat]
          /\ due' \in [Conn -> Seq(Unit)]
          /\ fresh' \subseteq Conn
      BY <1>15, HangupType DEF Unwind, LoopEnds, Drop
    <2> QED
      BY <1>15, <2>1 DEF Unwind, LoopEnds, Drop
  <1>16. CASE Abort
    <2>1. /\ peer' \in [Conn -> PeerState]
          /\ rx' \in [Conn -> Seq(Unit)]
          /\ tx' \in [Conn -> Nat]
          /\ due' \in [Conn -> Seq(Unit)]
          /\ fresh' \subseteq Conn
      BY <1>16, HangupType DEF Abort, LoopEnds
    <2> QED
      BY <1>16, <2>1 DEF Abort, LoopEnds
  <1> QED
    BY <1>1, <1>2, <1>3, <1>4, <1>5, <1>6, <1>7, <1>8, <1>9, <1>10, <1>12, <1>13,
       <1>14, <1>15, <1>16 DEF LoopStep

-----------------------------------------------------------------------------
(* The inductive invariant *)

LEMMA InitInvariant == Init => LoopInvariant
  <1> SUFFICES ASSUME Init PROVE LoopInvariant
    OBVIOUS
  <1>1. TypeOK
    BY InitTypeOK
  <1>2. /\ ConnectionsMirrorEpoll
        /\ NoDescriptorLeak
        /\ ListenerOwned
    BY SocketAssumption DEF Init, SocketsInit, EpollInit, ConnectionsMirrorEpoll,
       NoDescriptorLeak, ListenerOwned, OpenFds
  <1>3. NoBlockingRead /\ AnswerGoesToSender /\ NoLostWakeup /\ BatchHandled
    BY DEF Init, SocketsInit, EpollInit, NoBlockingRead, AnswerGoesToSender, NoLostWakeup,
       BatchHandled
  <1>4. OneDescriptor
    BY SocketAssumption DEF Init, SocketsInit, EpollInit, OneDescriptor, FdsOf
  <1>5. FreshIsReadable /\ UnitsFromOwner
    BY DEF Init, SocketsInit, FreshIsReadable, UnitsFromOwner
  <1> QED
    BY <1>1, <1>2, <1>3, <1>4, <1>5 DEF LoopInvariant

(* Input for one connection: what was readable stays so, and the           *)
(* descriptor of the connection becomes ready.                             *)
LEMMA ArrivalKeepsInvariant ==
    ASSUME LoopInvariant, TypeOK', NEW c \in Conn, Arrival(c),
           UNCHANGED <<fdt, backlog, interest, connections, loopVars>>,
           Readable(c)', \A d \in Conn : Readable(d) => Readable(d)',
           \A d \in Conn : peer'[d] = "none" => peer[d] = "none",
           UnitsFromOwner'
    PROVE  LoopInvariant'
  <1> USE DEF LoopInvariant, loopVars
  <1>1. ConnectionsMirrorEpoll' /\ NoDescriptorLeak' /\ ListenerOwned'
    BY DEF Arrival, ConnectionsMirrorEpoll, NoDescriptorLeak, ListenerOwned, OpenFds
  <1>2. NoBlockingRead'
    <2> SUFFICES ASSUME NEW fd \in events \ {ListenFd}
                 PROVE  fd \in connections /\ Readable(fdt[fd])'
      BY DEF NoBlockingRead
    <2>1. fd \in connections /\ Readable(fdt[fd])
      BY DEF NoBlockingRead
    <2>2. fdt[fd] \in Conn
      BY <2>1, ClientDescriptor
    <2> QED
      BY <2>1, <2>2
  <1>3. AnswerGoesToSender' /\ BatchHandled'
    BY DEF AnswerGoesToSender, BatchHandled
  <1>4. NoLostWakeup'
    BY DEF Arrival, NoLostWakeup, FdsOf, ConnectionsMirrorEpoll, TypeOK
  <1>5. OneDescriptor'
    BY DEF OneDescriptor, FdsOf
  <1>6. FreshIsReadable'
    BY DEF Arrival, FreshIsReadable, TypeOK
  <1> QED
    BY <1>1, <1>2, <1>3, <1>4, <1>5, <1>6

(* No client can break a promise of the loop: a client only ever adds      *)
(* input, and epoll records it.                                            *)
LEMMA ClientKeepsInvariant ==
    ASSUME LoopInvariant, NEW c \in Conn, ClientStep(c),
           UNCHANGED <<connections, loopVars, metrics>>
    PROVE  LoopInvariant'
  <1>0. TypeOK /\ TypeOK'
    BY ClientTypeOK DEF LoopInvariant
  <1> USE DEF LoopInvariant, loopVars, metrics, clientVars
  <1>1. CASE Connect(c)
    <2>1. ConnectionsMirrorEpoll' /\ NoDescriptorLeak' /\ ListenerOwned'
      BY <1>0, <1>1 DEF Connect, ConnectionsMirrorEpoll, NoDescriptorLeak, ListenerOwned, OpenFds
    <2>2. NoBlockingRead' /\ FreshIsReadable'
      BY <1>0, <1>1 DEF Connect, NoBlockingRead, FreshIsReadable, Readable, InputOver, TypeOK
    <2>3. AnswerGoesToSender' /\ UnitsFromOwner' /\ BatchHandled'
      BY <1>1 DEF Connect, AnswerGoesToSender, UnitsFromOwner, BatchHandled
    <2>4. NoLostWakeup'
      BY <1>0, <1>1, SocketAssumption
      DEF Connect, NoLostWakeup, ListenerOwned, ConnectionsMirrorEpoll, TypeOK
    <2>5. OneDescriptor'
      BY <1>0, <1>1 DEF Connect, OneDescriptor, FdsOf, TypeOK
    <2> QED
      BY <1>0, <2>1, <2>2, <2>3, <2>4, <2>5
  <1>2. ASSUME NEW r \in Request, NEW cut \in Cuts, SendRequest(c, r, cut)
        PROVE  LoopInvariant'
    <2> DEFINE unit == [from |-> c, req |-> r, part |-> FirstPart(cut)]
               rest == [i \in DOMAIN RestParts(cut) |->
                          [from |-> c, req |-> r, part |-> RestParts(cut)[i]]]
    <2>1. unit \in Unit /\ unit.from = c /\ \A i \in DOMAIN rest : rest[i].from = c
      BY PartTypes
    <2> HIDE DEF unit, rest
    <2>2. rx' = [rx EXCEPT ![c] = Append(@, unit)] /\ due' = [due EXCEPT ![c] = rest]
      BY <1>2 DEF SendRequest, unit, rest
    <2>3. /\ rx'[c] # <<>> /\ \A i \in DOMAIN rx'[c] : rx'[c][i].from = c
          /\ due'[c] = rest
          /\ \A d \in Conn \ {c} : rx'[d] = rx[d] /\ due'[d] = due[d]
      <3>1. rx[c] \in Seq(Unit) /\ \A i \in DOMAIN rx[c] : rx[c][i].from = c
        BY <1>0 DEF UnitsFromOwner, TypeOK
      <3>2. rx'[c] = Append(rx[c], unit)
        BY <1>0, <2>2 DEF TypeOK
      <3>3. rx'[c] # <<>> /\ \A i \in DOMAIN rx'[c] : rx'[c][i].from = c
        <4> HIDE DEF LoopInvariant
        <4> QED
          BY <2>1, <3>1, <3>2, AppendKeepsOwner
      <3>4. due'[c] = rest /\ \A d \in Conn \ {c} : rx'[d] = rx[d] /\ due'[d] = due[d]
        BY <1>0, <2>2 DEF TypeOK
      <3> QED
        BY <3>3, <3>4
    <2>4. UnitsFromOwner'
      BY <2>1, <2>3 DEF UnitsFromOwner
    <2>5. Readable(c)' /\ \A d \in Conn : Readable(d) => Readable(d)'
      BY <1>2, <2>3 DEF SendRequest, Readable
    <2> QED
      BY <1>0, <1>2, <2>4, <2>5, ArrivalKeepsInvariant DEF SendRequest
  <1>3. CASE SendRest(c)
    <2>1. /\ Head(due[c]) \in Unit /\ Head(due[c]).from = c
          /\ \A i \in DOMAIN Tail(due[c]) : Tail(due[c])[i].from = c
      BY <1>0, <1>3 DEF SendRest, UnitsFromOwner, TypeOK
    <2>2. UnitsFromOwner'
      <3>1. /\ rx'[c] = Append(rx[c], Head(due[c])) /\ due'[c] = Tail(due[c])
            /\ \A d \in Conn \ {c} : rx'[d] = rx[d] /\ due'[d] = due[d]
        BY <1>0, <1>3 DEF SendRest, TypeOK
      <3>2. rx[c] \in Seq(Unit) /\ \A i \in DOMAIN rx[c] : rx[c][i].from = c
        BY <1>0 DEF UnitsFromOwner, TypeOK
      <3>3. \A i \in DOMAIN rx'[c] : rx'[c][i].from = c
        <4> HIDE DEF LoopInvariant
        <4> QED
          BY <2>1, <3>1, <3>2, AppendKeepsOwner
      <3>4. \A i \in DOMAIN due'[c] : due'[c][i].from = c
        BY <2>1, <3>1
      <3> QED
        BY <1>0, <3>1, <3>3, <3>4 DEF UnitsFromOwner
    <2>3. Readable(c)' /\ \A d \in Conn : Readable(d) => Readable(d)'
      BY <1>0, <1>3, <2>1 DEF SendRest, Readable, TypeOK
    <2> QED
      BY <1>0, <1>3, <2>2, <2>3, ArrivalKeepsInvariant DEF SendRest
  <1>4. ASSUME NEW how \in {"shut", "closed", "reset"}, Leave(c, how)
        PROVE  LoopInvariant'
    <2>1. UnitsFromOwner'
      BY <1>0, <1>4 DEF Leave, UnitsFromOwner, TypeOK
    <2>2. /\ Readable(c)' /\ \A d \in Conn : Readable(d) => Readable(d)'
          /\ \A d \in Conn : peer'[d] = "none" => peer[d] = "none"
      BY <1>0, <1>4 DEF Leave, Readable, InputOver, TypeOK
    <2> QED
      BY <1>0, <1>4, <2>1, <2>2, ArrivalKeepsInvariant DEF Leave
  <1>5. CASE Drain(c)
    <2> QED
      BY <1>0, <1>5 DEF Drain, ConnectionsMirrorEpoll, NoDescriptorLeak, ListenerOwned, OpenFds,
         NoBlockingRead, FreshIsReadable, Readable, AnswerGoesToSender, UnitsFromOwner,
         NoLostWakeup, OneDescriptor, BatchHandled, FdsOf
  <1>6. CASE Refuse(c)
    <2>1. UnitsFromOwner'
      BY <1>6 DEF Refuse, UnitsFromOwner
    <2>2. /\ Readable(c)' /\ \A d \in Conn : Readable(d) => Readable(d)'
          /\ \A d \in Conn : peer'[d] = "none" => peer[d] = "none"
      BY <1>0, <1>6 DEF Refuse, Readable, InputOver, TypeOK
    <2> QED
      BY <1>0, <1>6, <2>1, <2>2, ArrivalKeepsInvariant DEF Refuse
  <1>7. CASE CloseShut(c)
    <2>1. \A d : Readable(d) => Readable(d)'
      BY <1>0, <1>7 DEF CloseShut, Readable, InputOver, TypeOK
    <2>2. \A d \in Conn : peer'[d] = "none" => peer[d] = "none"
      BY <1>0, <1>7 DEF CloseShut, TypeOK
    <2>3. NoBlockingRead' /\ FreshIsReadable'
      BY <1>7, <2>1 DEF CloseShut, NoBlockingRead, FreshIsReadable
    <2>4. OneDescriptor'
      BY <1>7, <2>2 DEF CloseShut, OneDescriptor, FdsOf
    <2> QED
      BY <1>0, <1>7, <2>3, <2>4 DEF CloseShut, ConnectionsMirrorEpoll, NoDescriptorLeak,
         ListenerOwned, OpenFds, AnswerGoesToSender, UnitsFromOwner, NoLostWakeup, BatchHandled
  <1> QED
    BY <1>1, <1>2, <1>3, <1>4, <1>5, <1>6, <1>7 DEF ClientStep

(* Steps between two system calls that touch neither a socket nor the map. *)
LEMMA QuietStepKeepsInvariant ==
    ASSUME LoopInvariant, TypeOK',
           UNCHANGED <<fdt, backlog, peer, rx, interest, ready, due, fresh, connections>>,
           pc # "ended", pc' # "ended", pc = "failed" => pc' = "failed",
           cur' = cur, events' \subseteq events,
           \A fd \in events \ events' : fd = ListenFd,
           pc' \in {"handle", "write"} => pc \in {"handle", "write"} /\ buf' = buf,
           BatchHandled'
    PROVE  LoopInvariant'
  <1> USE DEF LoopInvariant
  <1>1. ConnectionsMirrorEpoll' /\ NoDescriptorLeak' /\ ListenerOwned'
    BY DEF ConnectionsMirrorEpoll, NoDescriptorLeak, ListenerOwned, OpenFds
  <1>2. NoBlockingRead' /\ FreshIsReadable'
    BY DEF NoBlockingRead, FreshIsReadable, Readable
  <1>3. AnswerGoesToSender' /\ UnitsFromOwner'
    BY DEF AnswerGoesToSender, UnitsFromOwner
  <1>4. NoLostWakeup'
    BY SocketAssumption DEF NoLostWakeup, ListenerOwned, TypeOK
  <1>5. OneDescriptor'
    BY DEF OneDescriptor, FdsOf
  <1> QED
    BY <1>1, <1>2, <1>3, <1>4, <1>5

(* epoll_wait moves descriptors from the ready list to the batch; what it  *)
(* drops from the list had no input.                                       *)
LEMMA WaitKeepsInvariant ==
    ASSUME LoopInvariant, TypeOK', Wait
    PROVE  LoopInvariant'
  <1> USE DEF LoopInvariant
  <1>1. PICK batch \in SUBSET FD : ProcessEvents(batch) /\ Proceed(batch)
    BY DEF Wait
  <1>2. /\ batch \subseteq Ready
        /\ ready' = (Ready \ batch) \cup (batch \cap {ListenFd})
        /\ events' = batch
        /\ pc' \in {"wait", "dispatch"}
    BY <1>1 DEF ProcessEvents, Batch, Proceed
  <1>3. ConnectionsMirrorEpoll' /\ NoDescriptorLeak' /\ ListenerOwned'
    BY <1>2 DEF Wait, ConnectionsMirrorEpoll, NoDescriptorLeak, ListenerOwned, OpenFds, Ready
  <1>4. NoBlockingRead'
    BY <1>2 DEF Wait, NoBlockingRead, Ready, Pollable, Readable, ConnectionsMirrorEpoll,
       ListenerOwned, TypeOK
  <1>5. AnswerGoesToSender' /\ UnitsFromOwner' /\ FreshIsReadable'
    BY <1>2 DEF Wait, clientVars, AnswerGoesToSender, UnitsFromOwner, FreshIsReadable, Readable
  <1>6. NoLostWakeup'
    <2>1. ASSUME NEW fd \in connections, fdt[fd] \in fresh PROVE fd \in ready' \cup events'
      <3>1. fd \in ready
        BY <2>1 DEF Wait, NoLostWakeup, BatchHandled
      <3>2. fdt[fd] # Listener /\ Readable(fdt[fd])
        BY <2>1, SocketAssumption DEF FreshIsReadable, TypeOK
      <3>3. fd \in ready => fd \in Ready
        BY <3>2 DEF Ready, Pollable
      <3> QED
        BY <1>2, <3>1, <3>3
    <2>2. ASSUME backlog # {} PROVE ListenFd \in ready'
      <3>1. ListenFd \in Ready
        BY <2>2 DEF Wait, Ready, Pollable, NoLostWakeup, ListenerOwned
      <3> QED
        BY <1>2, <3>1
    <2> QED
      BY <2>1, <2>2 DEF Wait, clientVars, NoLostWakeup
  <1>7. OneDescriptor' /\ BatchHandled'
    BY <1>1 DEF Wait, OneDescriptor, FdsOf, BatchHandled, Proceed
  <1> QED
    BY <1>3, <1>4, <1>5, <1>6, <1>7

(* An accepted connection leaves the queue for a descriptor that no other  *)
(* connection, and no event of the batch, has.                             *)
LEMMA AcceptKeepsInvariant ==
    ASSUME LoopInvariant, TypeOK', AcceptOne
    PROVE  LoopInvariant'
  <1> USE DEF LoopInvariant, loopVars, clientVars
  <1>1. PICK fd \in FD, c \in Conn : Accept(fd, c) /\ Register(fd, c)
    BY DEF AcceptOne
  <1>2. fdt[fd] = Free /\ c \in backlog /\ fd # ListenFd /\ fd \notin connections
    BY <1>1, SocketAssumption
    DEF AcceptOne, Accept, ListenerOwned, ConnectionsMirrorEpoll, OpenFds
  <1>3. fdt' = [fdt EXCEPT ![fd] = c] /\ fdt'[fd] = c
    BY <1>1 DEF Accept, TypeOK
  <1>4. ConnectionsMirrorEpoll'
    BY <1>1, <1>2, <1>3, SocketAssumption DEF Register, ConnectionsMirrorEpoll, OpenFds, TypeOK
  <1>5. NoDescriptorLeak' /\ ListenerOwned'
    BY <1>1, <1>2, <1>3, SocketAssumption
    DEF AcceptOne, Register, NoDescriptorLeak, ListenerOwned, OpenFds, TypeOK
  <1>6. NoBlockingRead'
    <2> SUFFICES ASSUME NEW g \in events' \ {ListenFd}
                 PROVE  g \in connections' /\ Readable(fdt[g])'
      BY DEF NoBlockingRead
    <2>1. g \in connections /\ Readable(fdt[g])
      BY DEF AcceptOne, NoBlockingRead
    <2>2. g \in connections'
      BY <1>1, <2>1 DEF Register
    <2>3. fdt'[g] = fdt[g]
      BY <1>2, <1>3, <2>1 DEF TypeOK
    <2>4. rx' = rx /\ peer' = peer
      BY DEF AcceptOne
    <2> QED
      BY <2>1, <2>2, <2>3, <2>4 DEF Readable
  <1>7. AnswerGoesToSender' /\ UnitsFromOwner' /\ FreshIsReadable'
    BY DEF AcceptOne, AnswerGoesToSender, UnitsFromOwner, FreshIsReadable, Readable
  <1>8. NoLostWakeup'
    BY <1>1, <1>2, <1>3 DEF AcceptOne, Accept, Register, NoLostWakeup, FreshIsReadable, TypeOK
  <1>9. OneDescriptor' /\ BatchHandled'
    <2>1. peer' = peer /\ backlog' = backlog \ {c} /\ events' = events /\ pc' = pc
      BY <1>1 DEF AcceptOne, Accept
    <2>2. FdsOf(c)' = {fd} /\ \A d \in Conn \ {c} : FdsOf(d)' = FdsOf(d)
      <3>1. FdsOf(c) = {}
        BY <1>2 DEF OneDescriptor
      <3>2. \A g \in FD \ {fd} : fdt'[g] = fdt[g]
        BY <1>3 DEF TypeOK
      <3>3. c # Free /\ Free \notin Conn
        BY SocketAssumption
      <3> QED
        BY <1>2, <1>3, <3>1, <3>2, <3>3 DEF FdsOf
    <2>3. backlog \subseteq Conn /\ peer[c] # "none"
      BY <1>2 DEF OneDescriptor, TypeOK
    <2>4. OneDescriptor'
      BY <2>1, <2>2, <2>3 DEF OneDescriptor
    <2> QED
      BY <2>1, <2>4 DEF BatchHandled
  <1> QED
    BY <1>4, <1>5, <1>6, <1>7, <1>8, <1>9

(* register fails: the new descriptor is the one exception to the map.     *)
LEMMA RegisterFailsKeepsInvariant ==
    ASSUME LoopInvariant, TypeOK', RegisterFails
    PROVE  LoopInvariant'
  <1> USE DEF LoopInvariant, clientVars
  <1>1. PICK fd \in FD, c \in Conn : Accept(fd, c) /\ cur' = fd
    BY DEF RegisterFails
  <1>2. fdt[fd] = Free /\ c \in backlog /\ fd # ListenFd /\ fd \notin connections
    BY <1>1, SocketAssumption
    DEF RegisterFails, Accept, ListenerOwned, ConnectionsMirrorEpoll, OpenFds
  <1>3. fdt' = [fdt EXCEPT ![fd] = c] /\ fdt'[fd] = c
    BY <1>1 DEF Accept, TypeOK
  <1>4. ConnectionsMirrorEpoll'
    BY <1>2, <1>3 DEF RegisterFails, ConnectionsMirrorEpoll, OpenFds, TypeOK
  <1>5. NoDescriptorLeak' /\ ListenerOwned'
    BY <1>1, <1>2, <1>3, SocketAssumption
    DEF RegisterFails, NoDescriptorLeak, ListenerOwned, OpenFds, TypeOK
  <1>6. NoBlockingRead' /\ BatchHandled'
    <2>1. ASSUME NEW g \in events' \ {ListenFd}
          PROVE  g \in connections' /\ Readable(fdt[g])'
      <3>1. g \in connections /\ Readable(fdt[g])
        BY DEF RegisterFails, NoBlockingRead
      <3>2. fdt'[g] = fdt[g]
        BY <1>2, <1>3, <3>1 DEF TypeOK
      <3>3. connections' = connections /\ rx' = rx /\ peer' = peer
        BY DEF RegisterFails
      <3> QED
        BY <3>1, <3>2, <3>3 DEF Readable
    <2>2. BatchHandled'
      BY DEF RegisterFails, BatchHandled
    <2> QED
      BY <2>1, <2>2 DEF NoBlockingRead
  <1>7. AnswerGoesToSender' /\ UnitsFromOwner' /\ FreshIsReadable'
    BY DEF RegisterFails, AnswerGoesToSender, UnitsFromOwner, FreshIsReadable, Readable
  <1>8. NoLostWakeup'
    BY <1>1, <1>2, <1>3 DEF RegisterFails, Accept, NoLostWakeup, TypeOK
  <1>9. OneDescriptor'
    <2>1. backlog' = backlog \ {c} /\ peer' = peer /\ peer[c] # "none" /\ FdsOf(c) = {}
      BY <1>1, <1>2 DEF RegisterFails, Accept, OneDescriptor
    <2>2. FdsOf(c)' = {fd}
      BY <1>3, <2>1 DEF FdsOf, TypeOK
    <2>3. \A d \in Conn \ {c} : FdsOf(d)' = FdsOf(d)
      BY <1>2, <1>3, SocketAssumption DEF FdsOf, TypeOK
    <2>4. backlog \subseteq Conn
      BY DEF TypeOK
    <2> QED
      BY <2>1, <2>2, <2>3, <2>4 DEF OneDescriptor
  <1> QED
    BY <1>4, <1>5, <1>6, <1>7, <1>8, <1>9

(* One read: the input of the connection is taken, its descriptor leaves   *)
(* the batch, and the other connections of the batch are still readable.   *)
LEMMA ReadKeepsInvariant ==
    ASSUME LoopInvariant, TypeOK', ReadRequest
    PROVE  LoopInvariant'
  <1> USE DEF LoopInvariant
  <1>1. PICK fd \in events \ {ListenFd} :
           buf' = ReadData(fdt[fd]) /\ Read(fdt[fd]) /\ cur' = fd /\ events' = events \ {fd}
    BY DEF ReadRequest, Receives
  <1>2. fd \in connections /\ fdt[fd] \in Conn
    BY <1>1, ClientDescriptor DEF NoBlockingRead
  <1> DEFINE c == fdt[fd]
             rest == SubSeq(rx[c], ReadLen(c) + 1, Len(rx[c]))
  <1>3. /\ \A i \in DOMAIN rest : i + ReadLen(c) \in DOMAIN rx[c]
                                    /\ rest[i] = rx[c][i + ReadLen(c)]
        /\ \A i \in DOMAIN ReadData(c) : i \in DOMAIN rx[c] /\ ReadData(c)[i] = rx[c][i]
    BY <1>2, ReadLeavesRest, ReadDataIsPrefix
  <1> HIDE DEF rest
  <1>4. rx'[c] = rest /\ \A d \in Conn \ {c} : rx'[d] = rx[d]
    BY <1>1, <1>2 DEF Read, rest, TypeOK
  <1>5. ConnectionsMirrorEpoll' /\ NoDescriptorLeak' /\ ListenerOwned'
    BY DEF ReadRequest, Receives, ConnectionsMirrorEpoll, NoDescriptorLeak, ListenerOwned, OpenFds
  <1>6. NoBlockingRead'
    <2> SUFFICES ASSUME NEW g \in events \ {ListenFd, fd}
                 PROVE  g \in connections' /\ Readable(fdt[g])'
      BY <1>1 DEF NoBlockingRead
    <2>1. g \in connections /\ Readable(fdt[g])
      BY DEF NoBlockingRead
    <2>2. fdt[g] \in Conn
      BY <2>1, ClientDescriptor
    <2>3. fdt[g] # c
      BY <1>2, <2>1, <2>2 DEF OneDescriptor, FdsOf, TypeOK
    <2> QED
      BY <1>4, <2>1, <2>2, <2>3 DEF ReadRequest, Receives, Readable
  <1>7. AnswerGoesToSender'
    BY <1>1, <1>2, <1>3 DEF ReadRequest, Receives, AnswerGoesToSender, UnitsFromOwner
  <1>8. NoLostWakeup'
    BY <1>1, <1>2 DEF ReadRequest, Receives, Read, NoLostWakeup
  <1>9. OneDescriptor' /\ BatchHandled'
    BY DEF ReadRequest, Receives, OneDescriptor, BatchHandled, FdsOf
  <1>10. FreshIsReadable'
    BY <1>1, <1>4 DEF ReadRequest, Receives, Read, FreshIsReadable, Readable, TypeOK
  <1>11. UnitsFromOwner'
    BY <1>2, <1>3, <1>4 DEF ReadRequest, Receives, UnitsFromOwner
  <1> QED
    BY <1>5, <1>6, <1>7, <1>8, <1>9, <1>10, <1>11

(* Giving up the sockets of some connections: theirs is no input any more, *)
(* and nothing changes for the others.                                     *)
LEMMA HangupKeepsStreams ==
    ASSUME LoopInvariant, NEW gone, Hangup(gone)
    PROVE  /\ FreshIsReadable'
           /\ UnitsFromOwner'
           /\ \A c \in Conn \ gone : Readable(c) => Readable(c)'
           /\ \A c \in Conn : peer'[c] = "none" => peer[c] = "none"
           /\ \A c \in gone : c \notin fresh'
           /\ fresh' \subseteq fresh
  <1> USE DEF LoopInvariant, TypeOK, Hangup
  <1>1. \A c \in Conn \ gone : Readable(c) => Readable(c)'
    BY DEF Readable
  <1>2. FreshIsReadable'
    BY <1>1 DEF FreshIsReadable
  <1>3. UnitsFromOwner'
    BY DEF UnitsFromOwner
  <1> QED
    BY <1>1, <1>2, <1>3

(* close: the descriptor leaves the kernel's table, the interest list, the *)
(* map and the batch together.                                             *)
LEMMA CloseKeepsInvariant ==
    ASSUME LoopInvariant, TypeOK', ReadEnds \/ CloseFails
    PROVE  LoopInvariant'
  <1> USE DEF LoopInvariant
  <1>1. PICK fd \in events \ {ListenFd} :
           /\ pc = "dispatch" /\ Close(fd) /\ cur' = cur
           /\ events' = events \ {fd}
           /\ pc' \in {"wait", "dispatch", "failed"} /\ BatchHandled'
    BY DEF ReadEnds, CloseFails, ReadsNothing, Proceed, BatchHandled
  <1>2. fd \in connections /\ fdt[fd] \in Conn
    BY <1>1, ClientDescriptor DEF NoBlockingRead
  <1>3. /\ fdt'[fd] = Free /\ \A g \in FD \ {fd} : fdt'[g] = fdt[g]
        /\ interest' = interest \ {fd}
        /\ ready' = ready \ {fd}
        /\ connections' = connections \ {fd}
        /\ backlog' = backlog
        /\ events' = events \ {fd}
        /\ pc' \in {"wait", "dispatch", "failed"}
    BY <1>1 DEF Close, Unregister, TypeOK
  <1>4. ConnectionsMirrorEpoll'
    BY <1>3 DEF ConnectionsMirrorEpoll, OpenFds, TypeOK
  <1>5. NoDescriptorLeak' /\ ListenerOwned'
    BY <1>1, <1>3, SocketAssumption DEF NoDescriptorLeak, ListenerOwned, OpenFds, TypeOK
  <1>6. NoBlockingRead'
    <2> SUFFICES ASSUME NEW g \in events \ {ListenFd, fd}
                 PROVE  g \in connections' /\ Readable(fdt[g])'
      BY <1>3 DEF NoBlockingRead
    <2>1. g \in connections /\ Readable(fdt[g])
      BY DEF NoBlockingRead
    <2>2. fdt[g] \in Conn
      BY <2>1, ClientDescriptor
    <2>3. fdt[g] # fdt[fd] /\ fdt'[g] = fdt[g]
      BY <1>2, <1>3, <2>1, <2>2 DEF OneDescriptor, FdsOf, TypeOK
    <2>4. \A c \in Conn \ {fdt[fd]} : Readable(c) => Readable(c)'
      BY <1>1, HangupKeepsStreams DEF Close, Unregister
    <2> QED
      BY <1>3, <2>1, <2>2, <2>3, <2>4
  <1>7. AnswerGoesToSender'
    BY <1>3 DEF AnswerGoesToSender
  <1>8. NoLostWakeup'
    <2>1. fresh' \subseteq fresh
      BY <1>1, HangupKeepsStreams DEF Close, Unregister
    <2> QED
      BY <1>3, <2>1 DEF NoLostWakeup, TypeOK
  <1>9. OneDescriptor' /\ BatchHandled'
    <2>1. \A c \in Conn : peer'[c] = "none" => peer[c] = "none"
      BY <1>1, HangupKeepsStreams DEF Close, Unregister
    <2>2. \A c \in Conn : FdsOf(c)' \subseteq FdsOf(c)
      BY <1>3, SocketAssumption DEF FdsOf
    <2>3. OneDescriptor'
      <3>1. backlog \subseteq Conn
        BY DEF TypeOK
      <3>2. \A c \in Conn : peer'[c] = "none" => c \notin backlog' /\ FdsOf(c)' = {}
        BY <1>3, <2>1, <2>2 DEF OneDescriptor
      <3>3. \A c \in backlog' : FdsOf(c)' = {}
        BY <1>3, <2>2, <3>1 DEF OneDescriptor
      <3>4. \A c \in Conn : \A f, g \in FdsOf(c)' : f = g
        BY <2>2 DEF OneDescriptor
      <3> QED
        BY <3>2, <3>3, <3>4 DEF OneDescriptor
    <2> QED
      BY <1>1, <2>3
  <1>10. FreshIsReadable' /\ UnitsFromOwner'
    BY <1>1, HangupKeepsStreams DEF Close, Unregister
  <1> QED
    BY <1>4, <1>5, <1>6, <1>7, <1>8, <1>9, <1>10

(* Drop: of the sockets only one whose registration failed stays open.     *)
LEMMA UnwindKeepsInvariant ==
    ASSUME LoopInvariant, TypeOK', Unwind
    PROVE  LoopInvariant'
  <1> USE DEF LoopInvariant
  <1>1. /\ connections' = {} /\ backlog' = {} /\ events' = {} /\ pc' = "ended" /\ cur' = cur
        /\ interest' = {} /\ ready' = {}
        /\ \A fd \in FD : fdt'[fd] = IF fd \in connections THEN Free ELSE fdt[fd]
    BY DEF Unwind, LoopEnds, Drop, ConnectionsMirrorEpoll
  <1>2. FreshIsReadable' /\ UnitsFromOwner' /\ \A c \in Conn : peer'[c] = "none" => peer[c] = "none"
    BY HangupKeepsStreams DEF Unwind, LoopEnds, Drop
  <1>3. ConnectionsMirrorEpoll' /\ NoBlockingRead' /\ AnswerGoesToSender' /\ NoLostWakeup'
        /\ BatchHandled'
    BY <1>1 DEF ConnectionsMirrorEpoll, NoBlockingRead, AnswerGoesToSender, NoLostWakeup,
       BatchHandled
  <1>4. NoDescriptorLeak'
    BY <1>1 DEF NoDescriptorLeak, OpenFds
  <1>5. ListenerOwned'
    BY <1>1, SocketAssumption DEF ListenerOwned
  <1>6. OneDescriptor'
    <2>1. \A c \in Conn : FdsOf(c)' \subseteq FdsOf(c)
      BY <1>1, SocketAssumption DEF FdsOf
    <2> QED
      BY <1>1, <1>2, <2>1 DEF OneDescriptor
  <1> QED
    BY <1>2, <1>3, <1>4, <1>5, <1>6

(* A panic ends the process and all it had open.                           *)
LEMMA AbortKeepsInvariant ==
    ASSUME LoopInvariant, TypeOK', Abort
    PROVE  LoopInvariant'
  <1> USE DEF LoopInvariant
  <1>1. FreshIsReadable' /\ UnitsFromOwner'
    BY HangupKeepsStreams DEF Abort, LoopEnds
  <1>2. \A c \in Conn : FdsOf(c)' = {}
    BY SocketAssumption DEF Abort, LoopEnds, FdsOf
  <1>3. ConnectionsMirrorEpoll' /\ NoBlockingRead' /\ AnswerGoesToSender' /\ NoLostWakeup'
        /\ BatchHandled' /\ NoDescriptorLeak' /\ ListenerOwned'
    BY SocketAssumption DEF Abort, LoopEnds, ConnectionsMirrorEpoll, NoBlockingRead, AnswerGoesToSender,
       NoLostWakeup, BatchHandled, NoDescriptorLeak, ListenerOwned, OpenFds
  <1>4. OneDescriptor'
    BY <1>2 DEF Abort, LoopEnds, OneDescriptor
  <1> QED
    BY <1>1, <1>3, <1>4

LEMMA LoopKeepsInvariant ==
    ASSUME LoopInvariant, LoopStep
    PROVE  LoopInvariant'
  <1>0. TypeOK'
    BY LoopTypeOK
  <1> USE <1>0, QuietStepKeepsInvariant DEF kernelVars, clientVars
  <1>1. CASE Wait
    BY <1>1, WaitKeepsInvariant
  <1>2. CASE WaitFails
    BY <1>2 DEF WaitFails, BatchHandled
  <1>3. CASE ListenEvent
    BY <1>3 DEF ListenEvent, BatchHandled
  <1>4. CASE AcceptOne
    BY <1>4, AcceptKeepsInvariant
  <1>5. CASE RegisterFails
    BY <1>5, RegisterFailsKeepsInvariant
  <1>6. CASE AcceptEnds
    BY <1>6 DEF AcceptEnds, AcceptReturnsErr, Proceed, BatchHandled
  <1>7. CASE ReadRequest
    BY <1>7, ReadKeepsInvariant
  <1>8. CASE ReadEnds \/ CloseFails
    BY <1>8, CloseKeepsInvariant
  <1>9. CASE HandleRequest
    <2>1. pc' = "write" \/ pc' = "failed" \/ pc' = "panic"
      BY <1>9, ZenonT(60) DEF HandleRequest
    <2> QED
      BY <1>9, <2>1 DEF HandleRequest, BatchHandled
  <1>10. CASE WriteCopies
    BY <1>10 DEF WriteCopies, BatchHandled
  <1>11. ASSUME Finish, pc = "write"
         PROVE  LoopInvariant'
    BY <1>11 DEF Finish, Over, Proceed, BatchHandled
  <1>12. CASE WriteReturns
    BY <1>12, <1>11 DEF WriteReturns
  <1>13. CASE WriteCutShort
    BY <1>13, <1>11 DEF WriteCutShort
  <1>14. CASE WriteFails
    BY <1>14 DEF WriteFails, BatchHandled
  <1>15. CASE Unwind
    BY <1>15, UnwindKeepsInvariant
  <1>16. CASE Abort
    BY <1>16, AbortKeepsInvariant
  <1> QED
    BY <1>1, <1>2, <1>3, <1>4, <1>5, <1>6, <1>7, <1>8, <1>9, <1>10, <1>12, <1>13,
       <1>14, <1>15, <1>16 DEF LoopStep

(* A step that leaves all variables alone.                                 *)
LEMMA StutterKeepsInvariant ==
    ASSUME LoopInvariant, UNCHANGED vars
    PROVE  LoopInvariant'
  BY DEF vars, kernelVars, clientVars, loopVars, metrics, LoopInvariant, TypeOK,
     ConnectionsMirrorEpoll, NoDescriptorLeak, NoBlockingRead, AnswerGoesToSender, NoLostWakeup,
     ListenerOwned, OneDescriptor, BatchHandled, FreshIsReadable, UnitsFromOwner, OpenFds,
     FdsOf, Readable

-----------------------------------------------------------------------------
(* Theorems *)

(* The invariant of the event loop holds throughout: every step of         *)
(* event_loop, handle_request and the backend, and of every client, keeps  *)
(* it.                                                                     *)
THEOREM LoopCorrect == Spec => []LoopInvariant
  <1>1. LoopInvariant /\ [Next]_vars => LoopInvariant'
    BY ClientKeepsInvariant, LoopKeepsInvariant, StutterKeepsInvariant DEF Next, Clients
  <1> QED
    BY InitInvariant, <1>1, PTL DEF Spec

(* Every variable of the loop keeps its type.                              *)
THEOREM TypeCorrect == Spec => []TypeOK
  <1>1. LoopInvariant => TypeOK
    BY DEF LoopInvariant
  <1> QED
    BY LoopCorrect, <1>1, PTL

(* The map of the backend, the kernel's interest list and the descriptor   *)
(* table agree, so read, write and close get valid descriptors.            *)
THEOREM DescriptorsValid == Spec => []ConnectionsMirrorEpoll
  <1>1. LoopInvariant => ConnectionsMirrorEpoll
    BY DEF LoopInvariant
  <1> QED
    BY LoopCorrect, <1>1, PTL

(* Every open socket is in the map, save one whose registration failed.    *)
THEOREM DescriptorsKept == Spec => []NoDescriptorLeak
  <1>1. LoopInvariant => NoDescriptorLeak
    BY DEF LoopInvariant
  <1> QED
    BY LoopCorrect, <1>1, PTL

(* The read of a blocking socket in event_loop never blocks.               *)
THEOREM ReadsReturn == Spec => []NoBlockingRead
  <1>1. LoopInvariant => NoBlockingRead
    BY DEF LoopInvariant
  <1> QED
    BY LoopCorrect, <1>1, PTL

(* handle_request writes each answer to the client that sent the bytes it  *)
(* answers.                                                                *)
THEOREM AnswersReachSender == Spec => []AnswerGoesToSender
  <1>1. LoopInvariant => AnswerGoesToSender
    BY DEF LoopInvariant
  <1> QED
    BY LoopCorrect, <1>1, PTL

(* Input that arrived since the last read of its connection is never       *)
(* forgotten between the kernel's ready list and the batch in hand.  Of    *)
(* what a read left behind the theorem says nothing: it has no wakeup.     *)
THEOREM WakeupsKept == Spec => []NoLostWakeup
  <1>1. LoopInvariant => NoLostWakeup
    BY DEF LoopInvariant
  <1> QED
    BY LoopCorrect, <1>1, PTL

-----------------------------------------------------------------------------
(* Progress of the loop *)

(* A finite set has subsets of every size up to its own.                   *)
LEMMA SubsetOfSize ==
    ASSUME NEW S, IsFiniteSet(S), NEW k \in 0..Cardinality(S)
    PROVE  \E B \in SUBSET S : Cardinality(B) = k
  <1> DEFINE n == Cardinality(S)
             T == {i \in 0..n : \E B \in SUBSET S : Cardinality(B) = i}
  <1>1. n \in Nat
    BY FS_CardinalityType
  <1>2. 0 \in T
    BY <1>1, FS_EmptySet
  <1>3. ASSUME NEW i \in 0..(n - 1), i \in T
        PROVE  i + 1 \in T
    <2>1. PICK B \in SUBSET S : Cardinality(B) = i
      BY <1>3
    <2>2. IsFiniteSet(B) /\ B # S
      BY <2>1, <1>1, FS_Subset
    <2>3. PICK x \in S : x \notin B
      BY <2>2
    <2>4. Cardinality(B \cup {x}) = i + 1 /\ B \cup {x} \in SUBSET S
      BY <2>1, <2>2, <2>3, FS_AddElement
    <2> QED
      BY <2>4, <1>1
  <1> HIDE DEF T
  <1>4. \A i \in 0..n : i \in T
    BY <1>1, <1>2, <1>3, UpTo
  <1> QED
    BY <1>4 DEF T

(* epoll_wait can return: there is a batch of the size it gives.           *)
LEMMA BatchExists ==
    ASSUME TypeOK
    PROVE  \E batch \in SUBSET FD : Batch(batch)
  <1> DEFINE n == Cardinality(Ready)
             k == IF n < MaxEvents THEN n ELSE MaxEvents
  <1>1. Ready \in SUBSET FD
    BY DEF TypeOK, Ready
  <1>2. IsFiniteSet(Ready)
    BY <1>1, SocketAssumption, FS_Subset
  <1>3. n \in Nat
    BY <1>2, FS_CardinalityType
  <1>4. k \in 0..n
    BY <1>3, EpollAssumption
  <1> HIDE DEF k
  <1>5. PICK B \in SUBSET Ready : Cardinality(B) = k
    BY <1>2, <1>4, SubsetOfSize
  <1> QED
    BY <1>1, <1>5 DEF Batch, k

(* parse returns, with a request or with Err.                              *)
LEMMA ParseReturns ==
    ASSUME NEW b
    PROVE  Parse(b) # {}
  BY DEF Parse

LEMMA ProgressGivesStep == LoopInvariant /\ ProgressInvariant => AlwaysAStep
  <1> SUFFICES ASSUME LoopInvariant, ProgressInvariant
               PROVE  AlwaysAStep
    OBVIOUS
  <1>1. TypeOK /\ pc \in PcState
    BY DEF LoopInvariant, TypeOK
  <1>2. CASE pc = "wait"
    BY <1>1, <1>2, BatchExists DEF AlwaysAStep, CanStep
  <1>3. CASE pc = "dispatch"
    <2>1. PICK fd \in events : TRUE
      BY <1>3 DEF ProgressInvariant
    <2>2. fd = ListenFd \/ Readable(fdt[fd])
      BY DEF LoopInvariant, NoBlockingRead
    <2> QED
      BY <1>3, <2>1, <2>2 DEF AlwaysAStep, CanStep
  <1>4. CASE pc = "accept"
    BY <1>4 DEF AlwaysAStep, CanStep, AcceptFails, CanOpen, OpenFds
  <1>5. CASE pc = "handle"
    BY <1>5, ParseReturns DEF AlwaysAStep, CanStep
  <1>6. CASE pc = "write"
    <2>1. sent \in Nat /\ resp.len \in Nat /\ sent <= resp.len /\ sent <= MaxWrite
          /\ MaxWrite \in Nat \ {0}
      BY <1>1, <1>6, EpollAssumption DEF TypeOK, Answer, ProgressInvariant
    <2>2. cur \in connections \ {ListenFd}
      BY <1>6 DEF LoopInvariant, AnswerGoesToSender
    <2>3. fdt[cur] \in Conn
      BY <2>2, ClientDescriptor
    <2>4. tx[fdt[cur]] \in Nat /\ tx[fdt[cur]] <= SndBuf /\ SndBuf \in Nat
      BY <1>1, <2>3, SocketAssumption DEF TypeOK, ProgressInvariant
    <2>5. tx[fdt[cur]] = SndBuf \/ tx[fdt[cur]] < SndBuf
      BY <2>4
    <2>6. sent = resp.len \/ sent < resp.len
      BY <2>1
    <2>7. sent < MaxWrite \/ (sent > 0 /\ sent = MaxWrite)
      BY <2>1
    <2> QED
      BY <1>6, <2>5, <2>6, <2>7 DEF AlwaysAStep, CanStep, WriteBlocks, Writable
  <1>7. CASE pc \in {"failed", "panic", "ended"}
    BY <1>7 DEF AlwaysAStep, CanStep
  <1> QED
    BY <1>1, <1>2, <1>3, <1>4, <1>5, <1>6, <1>7 DEF PcState

LEMMA InitProgress == Init => ProgressInvariant
  BY SocketAssumption DEF Init, SocketsInit, ProgressInvariant

LEMMA ClientKeepsProgress ==
    ASSUME TypeOK, ProgressInvariant, NEW c \in Conn, ClientStep(c),
           UNCHANGED <<connections, loopVars, metrics>>
    PROVE  ProgressInvariant'
  <1>1. CASE Drain(c)
    <2>1. tx' = [tx EXCEPT ![c] = @ - 1] /\ tx \in [Conn -> Nat] /\ SndBuf \in Nat
      BY <1>1, SocketAssumption DEF Drain, TypeOK
    <2>2. \A d \in Conn : tx'[d] <= SndBuf
      BY <2>1 DEF ProgressInvariant
    <2> QED
      BY <2>2 DEF ProgressInvariant, loopVars
  <1>2. CASE UNCHANGED tx
    BY <1>2 DEF ProgressInvariant, loopVars
  <1> QED
    BY <1>1, <1>2 DEF ClientStep, Connect, SendRequest, SendRest, Leave, CloseShut, Refuse

LEMMA LoopKeepsProgress ==
    ASSUME LoopInvariant, ProgressInvariant, LoopStep
    PROVE  ProgressInvariant'
  <1> USE DEF ProgressInvariant
  <1>1. TypeOK /\ SndBuf \in Nat \ {0}
    BY SocketAssumption DEF LoopInvariant
  <1>2. CASE Wait \/ AcceptEnds
    BY <1>2 DEF Wait, AcceptEnds, AcceptReturnsErr, Proceed, kernelVars
  <1>3. CASE WaitFails \/ ListenEvent \/ RegisterFails \/ WriteFails
    BY <1>3 DEF WaitFails, ListenEvent, RegisterFails, WriteFails, kernelVars
  <1>4. CASE AcceptOne
    BY <1>4 DEF AcceptOne, loopVars
  <1>5. CASE ReadRequest
    BY <1>5 DEF ReadRequest, Receives
  <1>6. CASE ReadEnds \/ CloseFails
    <2>1. PICK fd \in events : Close(fd)
      BY <1>6 DEF ReadEnds, CloseFails, ReadsNothing
    <2>2. \A c \in Conn : tx'[c] \in {0, tx[c]}
      BY <2>1 DEF Close, Hangup
    <2>3. \A c \in Conn : tx'[c] <= SndBuf
      BY <1>1, <2>2
    <2> QED
      BY <1>6, <2>3 DEF ReadEnds, CloseFails, Proceed
  <1>7. CASE HandleRequest
    <2>1. PICK r \in Parse(buf) : resp' = AnswerTo(r, CanOpen)
      BY <1>7 DEF HandleRequest
    <2>2. resp' \in Answer
      BY <2>1, AnswerType DEF CanOpen
    <2>3. resp'.len \in Nat /\ sent' = 0
      BY <1>7, <2>2 DEF HandleRequest, Answer
    <2>4. pc' # "dispatch" /\ sent' <= resp'.len /\ sent' <= MaxWrite /\ UNCHANGED tx
      BY <1>7, <2>3, EpollAssumption DEF HandleRequest, kernelVars
    <2> QED
      BY <2>4
  <1>8. CASE WriteCopies
    <2>1. sent \in Nat /\ resp.len \in Nat /\ tx \in [Conn -> Nat] /\ MaxWrite \in Nat
      BY <1>1, EpollAssumption DEF TypeOK, Answer
    <2>2. sent' <= resp'.len /\ sent' <= MaxWrite
      BY <1>8, <2>1 DEF WriteCopies
    <2>3. tx[fdt[cur]] < SndBuf /\ tx' = [tx EXCEPT ![fdt[cur]] = @ + 1]
      BY <1>8 DEF WriteCopies, Writable
    <2>4. ASSUME NEW c \in Conn
          PROVE  tx'[c] <= SndBuf
      BY <1>1, <2>1, <2>3, <2>4
    <2> QED
      BY <1>8, <2>2, <2>4 DEF WriteCopies
  <1>9. CASE WriteReturns \/ WriteCutShort
    BY <1>9 DEF WriteReturns, WriteCutShort, Finish, Over, Proceed, kernelVars
  <1>10. CASE Unwind \/ Abort
    <2>1. \A c \in Conn : tx'[c] \in {0, tx[c]}
      BY <1>10 DEF Unwind, Abort, Drop, Hangup
    <2>2. \A c \in Conn : tx'[c] <= SndBuf
      BY <1>1, <2>1
    <2> QED
      BY <1>10, <2>2 DEF Unwind, Abort, LoopEnds
  <1> QED
    BY <1>2, <1>3, <1>4, <1>5, <1>6, <1>7, <1>8, <1>9, <1>10 DEF LoopStep

(* Whatever clients send, leave unread or reset, and whichever calls fail, *)
(* event_loop has a step it can take until it ends, unless it is in a      *)
(* write to a client that does not take its answer: the guard-by-guard     *)
(* form of OnlyWriteBlocks.                                                *)
THEOREM LoopNeverStuck == Spec => []AlwaysAStep
  <1>1. LoopInvariant /\ ProgressInvariant /\ [Next]_vars => ProgressInvariant'
    <2> SUFFICES ASSUME LoopInvariant, ProgressInvariant, [Next]_vars
                 PROVE  ProgressInvariant'
      OBVIOUS
    <2>1. CASE LoopStep
      BY <2>1, LoopKeepsProgress
    <2>2. CASE Clients
      BY <2>2, ClientKeepsProgress DEF Clients, LoopInvariant
    <2>3. CASE UNCHANGED vars
      BY <2>3 DEF vars, kernelVars, loopVars, ProgressInvariant
    <2> QED
      BY <2>1, <2>2, <2>3 DEF Next
  <1> QED
    BY InitProgress, LoopCorrect, <1>1, ProgressGivesStep, PTL DEF Spec

-----------------------------------------------------------------------------
(* The service of well-behaved clients: operators *)

(* With a descriptor for each connection, one for the listening socket and *)
(* one more, a file can be opened.                                         *)
LEMMA DescriptorLeft ==
    ASSUME LoopInvariant, LoopSurvives,
           IsFiniteSet(FD), IsFiniteSet(Conn), Cardinality(Conn) + 1 < Cardinality(FD)
    PROVE  CanOpen
  <1> SUFFICES ASSUME OpenFds = FD PROVE FALSE
    BY DEF CanOpen
  <1> DEFINE S == FD \ {ListenFd}
             f == [fd \in S |-> fdt[fd]]
  <1>1. f \in [S -> Conn]
    <2>1. \A fd \in S : fd \in connections
      BY DEF LoopInvariant, NoDescriptorLeak, LoopSurvives
    <2> QED
      BY <2>1, ClientDescriptor
  <1>2. \A x, y \in S : x # y => f[x] # f[y]
    <2> SUFFICES ASSUME NEW x \in S, NEW y \in S, f[x] = f[y]
                 PROVE  x = y
      OBVIOUS
    <2>1. fdt[x] \in Conn /\ fdt[y] = fdt[x]
      BY <1>1
    <2> QED
      BY <2>1 DEF LoopInvariant, OneDescriptor, FdsOf
  <1>3. IsFiniteSet(S) /\ Cardinality(Conn) < Cardinality(S)
    <2>1. Cardinality(S) = Cardinality(FD) - 1 /\ IsFiniteSet(S)
      BY SocketAssumption, FS_RemoveElement
    <2>2. Cardinality(FD) \in Nat /\ Cardinality(Conn) \in Nat
      BY FS_CardinalityType
    <2> HIDE DEF S
    <2> QED
      BY <2>1, <2>2
  <1> HIDE DEF f, S
  <1>4. \E x, y \in S : x # y /\ f[x] = f[y]
    BY <1>1, <1>3, FS_PigeonHole
  <1> QED
    BY <1>2, <1>4

(* A whole request of a well-behaved client gets an answer.                *)
LEMMA RequestGetsAnswer ==
    ASSUME WellBehaved, LoopInvariant, LoopSurvives,
           Len(buf) = 1, buf[1].part = "all",
           NEW r \in Parse(buf)
    PROVE  AnswerTo(r, CanOpen).kind = "ok" /\ AnswerTo(r, CanOpen).len <= MaxWrite
  <1>1. r = buf[1].req
    BY DEF Parse
  <1>2. buf[1] \in Unit
    <2>1. buf \in Seq(Unit)
      BY DEF LoopInvariant, TypeOK
    <2> QED
      BY <2>1, ElementOfSeq
  <1>3. r \in Request /\ r # NoRequest
    BY <1>1, <1>2 DEF Unit, WellBehaved
  <1>4. CASE Mode = "DynamicPath"
    BY <1>3, <1>4, EpollAssumption DEF AnswerTo, HandleDynamic, Reply, NotFound
  <1>5. CASE Mode # "DynamicPath"
    <2>1. Mode = "FastPath" /\ FileKind[r.path] \in {"missing", "regular"}
      BY <1>3, <1>5, HttpAssumption DEF WellBehaved
    <2>2. CanOpen
      BY <1>5, DescriptorLeft DEF WellBehaved
    <2>3. AnswerTo(r, CanOpen) = HandleStaticFile(r, CanOpen)
      BY <1>3, <2>1 DEF AnswerTo
    <2>4. HandleStaticFile(r, CanOpen) \in {NotFound, Reply(200, 1 + FileLen)}
      BY <2>1, <2>2 DEF HandleStaticFile, MmapFile
    <2>5. 1 + FileLen <= MaxWrite
      BY <1>5 DEF WellBehaved
    <2> QED
      BY <2>3, <2>4, <2>5, EpollAssumption DEF Reply, NotFound
  <1> QED
    BY <1>4, <1>5

-----------------------------------------------------------------------------
(* The invariant of the service *)

LEMMA InitService == Init => ServiceInvariant
  BY DEF Init, SocketsInit, ServiceInvariant, OneAtATime, HandledWhole, LoopSurvives,
     InHand

(* A client that waits sends and leaves only when nothing is under way.    *)
LEMMA SettledClient ==
    ASSUME OneAtATime, NEW c \in Conn, Settled(c), LoopInvariant
    PROVE  rx[c] = <<>> /\ ~InHand(c) /\ tx[c] = 0 /\ reqs[c] = answers[c]
  <1>1. answers[c] \in Nat /\ reqs[c] = answers[c] /\ tx[c] = 0
    BY DEF Settled, LoopInvariant, TypeOK
  <1>2. rx[c] # <<>> \/ InHand(c) => reqs[c] = answers[c] + 1
    BY DEF OneAtATime
  <1> QED
    BY <1>1, <1>2

LEMMA ClientKeepsService ==
    ASSUME WellBehaved, LoopInvariant, ServiceInvariant, NEW c \in Conn, ClientStep(c),
           UNCHANGED <<connections, loopVars, metrics>>
    PROVE  ServiceInvariant'
  <1> USE DEF ServiceInvariant
  <1>1. HandledWhole' /\ LoopSurvives'
    BY DEF HandledWhole, LoopSurvives, loopVars
  <1>2. \A d \in Conn : InHand(d)' <=> InHand(d)
    BY DEF ClientStep, Connect, SendRequest, SendRest, Leave, CloseShut, Drain, Refuse, InHand,
       loopVars
  <1>3. TypeOK
    BY DEF LoopInvariant
  <1>4. CASE Connect(c)
    BY <1>1, <1>2, <1>3, <1>4 DEF Connect, OneAtATime, InputOver, clientVars, TypeOK
  <1>5. ASSUME NEW r \in Request, NEW cut \in Cuts, SendRequest(c, r, cut)
        PROVE  ServiceInvariant'
    <2>1. Settled(c) /\ cut = "none" /\ peer[c] = "up"
      BY <1>5 DEF SendRequest, MayAct, WellBehaved
    <2>2. rx[c] = <<>> /\ ~InHand(c) /\ tx[c] = 0 /\ reqs[c] = answers[c]
      BY <2>1, SettledClient
    <2> DEFINE unit == [from |-> c, req |-> r, part |-> "all"]
    <2>3. FirstPart(cut) = "all" /\ RestParts(cut) = <<>>
      BY <2>1 DEF FirstPart, RestParts
    <2>4. /\ rx' = [rx EXCEPT ![c] = Append(@, unit)]
          /\ due' = [due EXCEPT ![c] = <<>>]
          /\ reqs' = [reqs EXCEPT ![c] = @ + 1]
          /\ fresh' = fresh \cup {c}
          /\ UNCHANGED <<peer, tx, answers>>
      <3>1. [i \in DOMAIN RestParts(cut) |->
               [from |-> c, req |-> r, part |-> RestParts(cut)[i]]] = <<>>
        BY <2>3
      <3> QED
        BY <1>5, <2>3, <3>1 DEF SendRequest, Arrival
    <2>5. rx'[c] = <<unit>> /\ \A d \in Conn \ {c} : rx'[d] = rx[d]
      BY <1>3, <2>2, <2>4 DEF TypeOK
    <2>6. Len(rx'[c]) = 1 /\ rx'[c][1].part = "all" /\ rx'[c] # <<>>
      BY <2>5
    <2> HIDE DEF unit
    <2>7. OneAtATime'
      BY <1>2, <1>3, <2>1, <2>2, <2>4, <2>5, <2>6 DEF OneAtATime, InputOver, TypeOK
    <2> QED
      BY <1>1, <2>7
  <1>6. CASE SendRest(c)
    BY <1>6 DEF SendRest, OneAtATime
  <1>7. ASSUME NEW how \in {"shut", "closed", "reset"}, Leave(c, how)
        PROVE  ServiceInvariant'
    <2>1. Settled(c)
      BY <1>7 DEF Leave, MayAct, WellBehaved
    <2>2. rx[c] = <<>> /\ ~InHand(c) /\ tx[c] = 0 /\ reqs[c] = answers[c]
      BY <2>1, SettledClient
    <2>3. OneAtATime'
      BY <1>2, <1>3, <1>7, <2>2 DEF Leave, Arrival, OneAtATime, TypeOK
    <2> QED
      BY <1>1, <2>3
  <1>8. CASE Drain(c)
    BY <1>1, <1>2, <1>3, <1>8 DEF Drain, OneAtATime, clientVars, TypeOK
  <1>9. CASE Refuse(c)
    BY <1>9 DEF Refuse, OneAtATime, InputOver
  <1>10. CASE CloseShut(c)
    BY <1>1, <1>2, <1>3, <1>10 DEF CloseShut, OneAtATime, InputOver, clientVars, TypeOK
  <1> QED
    BY <1>4, <1>5, <1>6, <1>7, <1>8, <1>9, <1>10 DEF ClientStep

(* A step of the loop that is not about a request in hand.                 *)
LEMMA QuietStepKeepsService ==
    ASSUME ServiceInvariant,
           pc \notin {"handle", "write"}, pc' \in {"wait", "dispatch", "accept"},
           UNCHANGED <<peer, rx, tx, clientVars>>
    PROVE  ServiceInvariant'
  BY DEF ServiceInvariant, OneAtATime, HandledWhole, LoopSurvives, InHand, clientVars

(* One read takes the request of the client whole.                         *)
LEMMA ReadKeepsService ==
    ASSUME LoopInvariant, ServiceInvariant, ReadRequest
    PROVE  ServiceInvariant'
  <1> USE DEF ServiceInvariant
  <1>1. PICK fd \in events \ {ListenFd} : Receives(fd) /\ cur' = fd
    BY DEF ReadRequest
  <1>2. fd \in connections /\ fdt[fd] \in Conn /\ TypeOK
    BY <1>1, ClientDescriptor DEF NoBlockingRead, LoopInvariant
  <1>3. PICK c \in Conn : c = fdt[fd]
    BY <1>2
  <1>4. pc = "dispatch" /\ pc' = "handle" /\ rx[c] # <<>> /\ Len(rx[c]) = 1
        /\ rx[c][1].part = "all" /\ rx[c] \in Seq(Unit)
    BY <1>1, <1>2, <1>3 DEF Receives, OneAtATime, TypeOK
  <1>5. ReadLen(c) = 1
    BY <1>4, EpollAssumption DEF ReadLen
  <1>6. buf' = rx[c]
    BY <1>1, <1>3, <1>4, <1>5 DEF Receives, ReadData
  <1>7. rx' = [rx EXCEPT ![c] = <<>>] /\ fresh' = fresh \ {c}
    <2>1. SubSeq(rx[c], ReadLen(c) + 1, Len(rx[c])) = <<>>
      BY <1>4, <1>5
    <2> QED
      BY <1>1, <1>3, <2>1 DEF Receives, Read
  <1>8. \A d \in Conn : ~InHand(d) /\ (InHand(d)' <=> d = c)
    BY <1>1, <1>3, <1>4 DEF InHand, Receives
  <1>9. OneAtATime'
    BY <1>1, <1>2, <1>4, <1>7, <1>8 DEF Receives, OneAtATime, TypeOK
  <1> QED
    BY <1>1, <1>4, <1>6, <1>9 DEF Receives, HandledWhole, LoopSurvives

(* close: only of clients that have left.                                  *)
LEMMA CloseKeepsService ==
    ASSUME LoopInvariant, ServiceInvariant, ReadEnds
    PROVE  ServiceInvariant'
  <1> USE DEF ServiceInvariant
  <1>1. PICK fd \in events \ {ListenFd} :
           ReadsNothing(fd) /\ Proceed(events \ {fd})
    BY DEF ReadEnds
  <1>2. fdt[fd] \in Conn /\ TypeOK
    BY <1>1, ClientDescriptor DEF NoBlockingRead, LoopInvariant
  <1>3. PICK c \in Conn : c = fdt[fd]
    BY <1>2
  <1>4. peer[c] \in InputOver /\ rx[c] = <<>>
    BY <1>1, <1>3 DEF ReadsNothing, Readable
  <1>5. Hangup({c}) /\ pc = "dispatch" /\ pc' \in {"wait", "dispatch"}
    BY <1>1, <1>3 DEF ReadsNothing, Close, Proceed
  <1>6. \A d \in Conn : ~InHand(d) /\ ~InHand(d)'
    BY <1>5 DEF InHand
  <1>7. /\ peer'[c] = "done" /\ rx'[c] = <<>> /\ tx'[c] = 0 /\ due'[c] = <<>>
        /\ \A d \in Conn \ {c} : /\ peer'[d] = peer[d] /\ rx'[d] = rx[d]
                                 /\ tx'[d] = tx[d] /\ due'[d] = due[d]
        /\ fresh' = fresh \ {c}
    BY <1>2, <1>5 DEF Hangup, TypeOK
  <1>10. peer'[c] \notin InputOver
    BY <1>7 DEF InputOver
  <1>8. reqs' = reqs /\ answers' = answers
    BY <1>1 DEF ReadsNothing
  <1>9. OneAtATime'
    <2> SUFFICES ASSUME NEW d \in Conn
                 PROVE  /\ due'[d] = <<>>
                        /\ rx'[d] = <<>> => reqs'[d] = answers'[d]
                        /\ rx'[d] # <<>> => /\ reqs'[d] = answers'[d] + 1
                                            /\ Len(rx'[d]) = 1 /\ rx'[d][1].part = "all"
                                            /\ d \in fresh'
                        /\ peer'[d] \in InputOver => rx'[d] = <<>> /\ tx'[d] = 0
      BY <1>6 DEF OneAtATime
    <2>1. CASE d = c
      BY <1>4, <1>6, <1>7, <1>8, <1>10, <2>1 DEF OneAtATime
    <2>2. CASE d # c
      BY <1>6, <1>7, <1>8, <2>2 DEF OneAtATime
    <2> QED
      BY <2>1, <2>2
  <1> QED
    BY <1>5, <1>9 DEF HandledWhole, LoopSurvives

LEMMA LoopKeepsService ==
    ASSUME WellBehaved, LoopInvariant, ServiceInvariant, LoopStep
    PROVE  ServiceInvariant'
  <1>0. TypeOK /\ LoopSurvives
    BY DEF LoopInvariant, ServiceInvariant
  <1> USE QuietStepKeepsService DEF kernelVars
  <1>1. CASE Wait
    BY <1>1 DEF Wait, Proceed
  <1>2. CASE WaitFails \/ RegisterFails \/ CloseFails
    BY <1>2 DEF WaitFails, RegisterFails, CloseFails, WellBehaved
  <1>3. CASE ListenEvent
    BY <1>3 DEF ListenEvent
  <1>4. CASE AcceptOne
    BY <1>4 DEF AcceptOne, loopVars
  <1>5. CASE AcceptEnds
    BY <1>5 DEF AcceptEnds, AcceptReturnsErr, Proceed
  <1>6. CASE ReadRequest
    BY <1>6, ReadKeepsService
  <1>7. CASE ReadEnds
    BY <1>7, CloseKeepsService
  <1>8. CASE HandleRequest
    <2>1. PICK r \in Parse(buf) : resp' = AnswerTo(r, CanOpen)
      BY <1>8 DEF HandleRequest
    <2>2. resp'.kind = "ok" /\ resp'.len <= MaxWrite
      BY <1>0, <1>8, <2>1, RequestGetsAnswer DEF HandleRequest, ServiceInvariant, HandledWhole
    <2>3. pc = "handle" /\ pc' = "write" /\ sent' = 0 /\ cur' = cur /\ fdt' = fdt
      BY <1>8, <2>2 DEF HandleRequest
    <2>4. OneAtATime'
      <3>1. \A d \in Conn : InHand(d)' <=> InHand(d)
        BY <2>3 DEF InHand
      <3> QED
        BY <1>8, <3>1 DEF HandleRequest, ServiceInvariant, OneAtATime, clientVars
    <2> QED
      BY <2>2, <2>3, <2>4 DEF ServiceInvariant, HandledWhole, LoopSurvives
  <1>9. ASSUME pc = "write"
        PROVE  /\ fdt[cur] \in Conn
               /\ InHand(fdt[cur]) /\ \A d \in Conn \ {fdt[cur]} : ~InHand(d)
               /\ peer[fdt[cur]] # "reset"
    <2>1. fdt[cur] \in Conn
      BY <1>9, ClientDescriptor DEF LoopInvariant, AnswerGoesToSender
    <2> QED
      BY <1>9, <2>1 DEF InHand, ServiceInvariant, OneAtATime, InputOver
  <1>10. CASE WriteCopies
    <2>1. \A d \in Conn : InHand(d)' <=> InHand(d)
      BY <1>10 DEF WriteCopies, InHand
    <2>2. tx' = [tx EXCEPT ![fdt[cur]] = @ + 1] /\ pc = "write"
      BY <1>10 DEF WriteCopies
    <2>3. OneAtATime'
      BY <1>0, <1>9, <1>10, <2>1, <2>2
      DEF WriteCopies, ServiceInvariant, OneAtATime, clientVars, TypeOK
    <2> QED
      BY <1>10, <2>3 DEF WriteCopies, ServiceInvariant, HandledWhole, LoopSurvives
  <1>11. CASE WriteReturns
    <2>1. pc = "write" /\ pc' \in {"wait", "dispatch"}
          /\ answers' = [answers EXCEPT ![fdt[cur]] = @ + 1]
          /\ UNCHANGED <<peer, rx, tx, due, reqs, fresh>>
      BY <1>11 DEF WriteReturns, Finish, Over, Proceed
    <2>2. \A d \in Conn : ~InHand(d)'
      BY <2>1 DEF InHand
    <2>3. OneAtATime'
      BY <1>0, <1>9, <2>1, <2>2 DEF ServiceInvariant, OneAtATime, TypeOK
    <2> QED
      BY <2>1, <2>3 DEF ServiceInvariant, HandledWhole, LoopSurvives
  <1>12. CASE WriteCutShort \/ WriteFails
    <2>1. ~WriteFails
      BY <1>9 DEF WriteFails
    <2>2. CASE WriteCutShort
      <3>1. sent \in Nat /\ resp.len \in Nat /\ MaxWrite \in Nat
        BY <1>0, EpollAssumption DEF TypeOK, Answer
      <3>2. sent = MaxWrite /\ sent < resp.len /\ resp.len <= MaxWrite
        BY <1>9, <2>2 DEF WriteCutShort, ServiceInvariant, HandledWhole
      <3> QED
        BY <3>1, <3>2
    <2> QED
      BY <1>12, <2>1, <2>2
  <1>13. CASE Unwind \/ Abort
    BY <1>0, <1>13 DEF Unwind, Abort, LoopSurvives
  <1> QED
    BY <1>1, <1>2, <1>3, <1>4, <1>5, <1>6, <1>7, <1>8, <1>10, <1>11, <1>12, <1>13 DEF LoopStep

LEMMA NextKeepsService ==
    ASSUME WellBehaved, LoopInvariant, ServiceInvariant, [Next]_vars
    PROVE  ServiceInvariant'
  <1>1. CASE UNCHANGED vars
    BY <1>1 DEF vars, kernelVars, clientVars, loopVars, metrics, ServiceInvariant, OneAtATime,
       HandledWhole, LoopSurvives, InHand
  <1> QED
    BY <1>1, ClientKeepsService, LoopKeepsService DEF Next, Clients

-----------------------------------------------------------------------------
(* Theorems *)

(* Every well-behaved client has at most one request under way, which the  *)
(* loop reads and answers whole.                                           *)
THEOREM ServiceCorrect ==
    ASSUME WellBehaved
    PROVE  Spec => []ServiceInvariant
  <1>1. LoopInvariant /\ ServiceInvariant /\ [Next]_vars => ServiceInvariant'
    BY NextKeepsService
  <1> QED
    BY <1>1, InitService, LoopCorrect, PTL DEF Spec

(* Nothing that well-behaved clients do ends event_loop, although every    *)
(* Err of handle_request would.                                            *)
THEOREM LoopRunsOn ==
    ASSUME WellBehaved
    PROVE  Spec => []LoopSurvives
  <1>1. ServiceInvariant => LoopSurvives
    BY DEF ServiceInvariant
  <1> QED
    BY <1>1, ServiceCorrect, PTL

(* The loop sleeps in epoll_wait only when all that it was sent on the     *)
(* connections it accepted is answered.                                    *)
THEOREM SleepsWhenAnswered ==
    ASSUME WellBehaved
    PROVE  Spec => []SleepsOnlyWhenAnswered
  <1>1. LoopInvariant /\ ServiceInvariant => SleepsOnlyWhenAnswered
    <2> SUFFICES ASSUME LoopInvariant, ServiceInvariant, pc = "wait", Ready = {},
                        NEW c \in Conn, FdsOf(c) # {}
                 PROVE  answers[c] = reqs[c]
      BY DEF SleepsOnlyWhenAnswered
    <2>1. PICK fd \in FD : fdt[fd] = c
      BY DEF FdsOf
    <2>2. fd \in connections /\ fd # ListenFd
      <3>1. fd \in OpenFds
        BY <2>1, SocketAssumption DEF OpenFds
      <3>2. fd \in connections
        BY <3>1 DEF LoopInvariant, NoDescriptorLeak
      <3> QED
        BY <2>1, <3>2, SocketAssumption DEF LoopInvariant, ListenerOwned
    <2>3. rx[c] = <<>>
      <3> SUFFICES ASSUME rx[c] # <<>> PROVE FALSE
        OBVIOUS
      <3>1. c \in fresh
        BY DEF ServiceInvariant, OneAtATime
      <3>2. fd \in ready
        BY <2>1, <2>2, <3>1 DEF LoopInvariant, NoLostWakeup, BatchHandled
      <3>3. Pollable(fd)
        BY <2>1, SocketAssumption DEF Pollable, Readable
      <3> QED
        BY <3>2, <3>3 DEF Ready
    <2> QED
      BY <2>3 DEF ServiceInvariant, OneAtATime, InHand
  <1> QED
    BY <1>1, ServiceCorrect, LoopCorrect, PTL

(* Every step of the server and its clients is a request, an answer to it, *)
(* or none of the two.                                                     *)
LEMMA NextServes ==
    ASSUME WellBehaved, LoopInvariant, ServiceInvariant, [Next]_vars
    PROVE  [Service!Next]_(Service!vars)
  <1> USE DEF kernelVars, clientVars
  <1>1. ASSUME NEW c \in Conn, NEW r \in Request, NEW cut \in Cuts, SendRequest(c, r, cut)
        PROVE  Service!Ask(c)
    <2>1. reqs[c] = answers[c]
      BY <1>1 DEF SendRequest, MayAct, WellBehaved, Settled
    <2> QED
      BY <1>1, <2>1 DEF SendRequest, Service!Ask
  <1>2. ASSUME NEW c \in Conn, Connect(c) \/ SendRest(c) \/ CloseShut(c) \/ Drain(c) \/ Refuse(c)
                               \/ \E how \in {"shut", "closed", "reset"} : Leave(c, how)
        PROVE  UNCHANGED (Service!vars)
    BY <1>2 DEF Connect, SendRest, CloseShut, Drain, Refuse, Leave, Service!vars
  <1>3. CASE WriteReturns
    <2>1. fdt[cur] \in Conn /\ InHand(fdt[cur])
      BY <1>3, ClientDescriptor DEF WriteReturns, LoopInvariant, AnswerGoesToSender, InHand
    <2>2. reqs[fdt[cur]] = answers[fdt[cur]] + 1
      BY <2>1 DEF ServiceInvariant, OneAtATime
    <2>3. Service!Respond(fdt[cur])
      BY <1>3, <2>2 DEF WriteReturns, Finish, Over, Service!Respond
    <2> QED
      BY <2>1, <2>3 DEF Service!Next
  <1>4. CASE LoopStep /\ ~WriteReturns
    <2>1. UNCHANGED <<reqs, answers>>
      BY <1>4 DEF LoopStep, Wait, WaitFails, ListenEvent, AcceptOne, RegisterFails, AcceptEnds,
         AcceptReturnsErr, ReadRequest, Receives, ReadEnds, CloseFails, ReadsNothing,
         HandleRequest, WriteCopies,
         WriteCutShort, Finish, Over, WriteFails, Unwind, Abort, LoopEnds
    <2> QED
      BY <2>1 DEF Service!vars
  <1>5. CASE UNCHANGED vars
    BY <1>5 DEF vars, Service!vars
  <1> QED
    BY <1>1, <1>2, <1>3, <1>4, <1>5 DEF Next, Clients, ClientStep, Service!Next

(* The server implements HttpService, apart from its fairness: each        *)
(* request of a well-behaved client gets one answer and no answer comes    *)
(* without a request.                                                      *)
THEOREM ServerImplementsService ==
    ASSUME WellBehaved
    PROVE  Spec => ServiceSafety
  <1>1. Init => Service!Init
    BY DEF Init, SocketsInit, Service!Init
  <1>2. LoopInvariant /\ ServiceInvariant /\ [Next]_vars => [Service!Next]_(Service!vars)
    BY NextServes
  <1> QED
    BY <1>1, <1>2, ServiceCorrect, LoopCorrect, PTL DEF Spec, ServiceSafety
=============================================================================
