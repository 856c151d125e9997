------------------------------ MODULE Reactor ------------------------------
(***************************************************************************)
(* The event loop of the server: Reactor::event_loop and handle_request    *)
(* (src/worker/reactor.rs) over EpollBackend and Http.  One step of the    *)
(* loop runs from one system call to the next; the clients of Sockets move *)
(* between them.  self.running is TRUE for as long as the loop runs, since *)
(* nothing in the program clears it.                                       *)
(***************************************************************************)
EXTENDS EpollBackend

CONSTANT Faults     \* system calls that may fail at any time:
                    \* "epoll_wait" (EINTR), "epoll_ctl" (ENOMEM, ENOSPC),
                    \* "close" (EINTR, EIO)

ASSUME FaultAssumption == Faults \subseteq {"epoll_wait", "epoll_ctl", "close"}

VARIABLES
    pc,             \* where the loop is
    events,         \* events of the batch that are still to be handled
    cur,            \* descriptor of the request or connection in hand
    buf,            \* bytes read for it
    resp,           \* answer being written
    sent,           \* units of it that write() has copied
    requests_total, \* metrics.requests_total
    bytes_sent      \* metrics.bytes_sent

loopVars == <<pc, events, cur, buf, resp, sent>>
metrics == <<requests_total, bytes_sent>>
vars == <<kernelVars, clientVars, connections, loopVars, metrics>>

NoAnswer == Reply(200, 0)

Init ==
    /\ SocketsInit
    /\ EpollInit
    /\ pc = "wait"
    /\ events = {}
    /\ cur = ListenFd
    /\ buf = <<>>
    /\ resp = NoAnswer
    /\ sent = 0
    /\ requests_total = 0
    /\ bytes_sent = 0

(* The for loop over the batch goes on, or the while loop waits again.     *)
Proceed(left) ==
    /\ events' = left
    /\ pc' = IF left = {} THEN "wait" ELSE "dispatch"

-----------------------------------------------------------------------------
(* epoll.process_events(100)? *)

Wait ==
    /\ pc = "wait"
    /\ \E batch \in SUBSET FD : ProcessEvents(batch) /\ Proceed(batch)
    /\ UNCHANGED <<fdt, backlog, peer, rx, tx, interest, clientVars, connections,
                   cur, buf, resp, sent, metrics>>

WaitFails ==
    /\ pc = "wait"
    /\ "epoll_wait" \in Faults
    /\ pc' = "failed"
    /\ UNCHANGED <<kernelVars, clientVars, connections, events, cur, buf, resp, sent, metrics>>

-----------------------------------------------------------------------------
(* fd == listen_fd: accept until it fails *)

ListenEvent ==
    /\ pc = "dispatch"
    /\ ListenFd \in events
    /\ pc' = "accept"
    /\ events' = events \ {ListenFd}
    /\ UNCHANGED <<kernelVars, clientVars, connections, cur, buf, resp, sent, metrics>>

AcceptOne ==
    /\ pc = "accept"
    /\ \E fd \in FD, c \in Conn : Accept(fd, c) /\ Register(fd, c)
    /\ UNCHANGED <<peer, rx, tx, clientVars, loopVars, metrics>>

(* register(client_fd, ..)? fails: client_fd is open and in no map.        *)
RegisterFails ==
    /\ pc = "accept"
    /\ "epoll_ctl" \in Faults
    /\ \E fd \in FD, c \in Conn : Accept(fd, c) /\ cur' = fd
    /\ pc' = "failed"
    /\ UNCHANGED <<peer, rx, tx, interest, ready, clientVars, connections,
                   events, buf, resp, sent, metrics>>

AcceptReturnsErr ==
    /\ pc = "accept"
    /\ AcceptFails
    /\ UNCHANGED <<kernelVars, clientVars, connections, cur, buf, resp, sent, metrics>>

AcceptEnds_Propagates ==    \* mutant: accept()? instead of Err(_) => break
    AcceptReturnsErr /\ pc' = "failed" /\ UNCHANGED events

AcceptEnds_LeavesBatch ==   \* mutant: break leaves the for loop as well
    AcceptReturnsErr /\ Proceed({})

AcceptEnds == AcceptReturnsErr /\ Proceed(events)

-----------------------------------------------------------------------------
(* An event of a client: read, then handle_request or close *)

Receives(fd) ==
    /\ pc = "dispatch"
    /\ rx[fdt[fd]] # <<>>
    /\ buf' = ReadData(fdt[fd])
    /\ Read(fdt[fd])
    /\ pc' = "handle"
    /\ UNCHANGED <<fdt, backlog, peer, tx, interest, ready, due, reqs, answers,
                   connections, resp, sent, metrics>>

ReadRequest_ReadsOn ==      \* mutant: reads until EAGAIN, as for non-blocking sockets
    \E fd \in events \ {ListenFd} :
        Receives(fd) /\ cur' = fd /\ UNCHANGED events

ReadRequest_OldFd ==        \* mutant: answers on the descriptor of the last request
    \E fd \in events \ {ListenFd} :
        Receives(fd) /\ UNCHANGED cur /\ events' = events \ {fd}

ReadRequest ==
    \E fd \in events \ {ListenFd} :
        Receives(fd) /\ cur' = fd /\ events' = events \ {fd}

ReadEnds_Ignores ==         \* mutant: read() = 0 is skipped like an empty request
    /\ pc = "dispatch"
    /\ \E fd \in events \ {ListenFd} :
         /\ rx[fdt[fd]] = <<>>
         /\ Readable(fdt[fd])
         /\ Proceed(events \ {fd})
    /\ UNCHANGED <<kernelVars, clientVars, connections, cur, buf, resp, sent, metrics>>

(* read() returned 0 or Err.                                               *)
ReadsNothing(fd) ==
    /\ pc = "dispatch"
    /\ rx[fdt[fd]] = <<>>
    /\ Readable(fdt[fd])
    /\ Close(fd)
    /\ UNCHANGED <<reqs, answers, cur, buf, resp, sent, metrics>>

ReadEnds ==
    \E fd \in events \ {ListenFd} : ReadsNothing(fd) /\ Proceed(events \ {fd})

(* close(2) returns an error, and `?` passes it on.                        *)
CloseFails ==
    /\ "close" \in Faults
    /\ \E fd \in events \ {ListenFd} :
         ReadsNothing(fd) /\ pc' = "failed" /\ events' = events \ {fd}

(* handle_request up to epoll.write.                                       *)
HandleRequest ==
    /\ pc = "handle"
    /\ requests_total' = requests_total + 1
    /\ \E r \in Parse(buf) : resp' = AnswerTo(r, CanOpen)
    /\ sent' = 0
    /\ pc' = CASE resp'.kind = "ok" -> "write"
               [] resp'.kind = "err" -> "failed"
               [] OTHER -> "panic"
    /\ UNCHANGED <<kernelVars, clientVars, connections, events, cur, buf,
                   bytes_sent>>

(* epoll.write: the call copies as the send buffer drains.                 *)
Writable(c) == peer[c] # "reset" /\ tx[c] < SndBuf

WriteCopies ==
    /\ pc = "write"
    /\ sent < resp.len
    /\ sent < MaxWrite
    /\ Writable(fdt[cur])
    /\ tx' = [tx EXCEPT ![fdt[cur]] = @ + 1]
    /\ sent' = sent + 1
    /\ UNCHANGED <<fdt, backlog, peer, rx, interest, ready, clientVars, connections,
                   pc, events, cur, buf, resp, requests_total, bytes_sent>>

(* The request is over; the loop turns to the events that are left.        *)
Over(bytes, left) ==
    /\ bytes_sent' = bytes_sent + bytes
    /\ Proceed(left)
    /\ buf' = <<>>
    /\ resp' = NoAnswer
    /\ sent' = 0
    /\ UNCHANGED <<kernelVars, due, reqs, fresh, connections, cur>>

Finish_LeavesBatch ==       \* mutant: one request per call of epoll_wait
    Over(resp.len, {}) /\ UNCHANGED requests_total

(* All of the answer is counted, whatever write returned.                  *)
Finish == Over(resp.len, events) /\ UNCHANGED requests_total

WriteReturns ==
    /\ pc = "write"
    /\ sent = resp.len
    /\ answers' = [answers EXCEPT ![fdt[cur]] = @ + 1]
    /\ Finish

(* RST after part of the answer was copied, or an answer longer than one   *)
(* write takes: write returns the short count, which handle_request does   *)
(* not look at.                                                            *)
WriteCutShort ==
    /\ pc = "write"
    /\ peer[fdt[cur]] = "reset" \/ sent = MaxWrite
    /\ sent > 0
    /\ sent < resp.len
    /\ UNCHANGED answers
    /\ Finish

(* RST before anything was copied: EPIPE or ECONNRESET.                    *)
WriteFails ==
    /\ pc = "write"
    /\ peer[fdt[cur]] = "reset"
    /\ sent = 0
    /\ pc' = "failed"
    /\ UNCHANGED <<kernelVars, clientVars, connections, events, cur, buf, resp, sent, metrics>>

-----------------------------------------------------------------------------
(* The loop ends *)

LoopEnds ==
    /\ pc' = "ended"
    /\ events' = {}
    /\ buf' = <<>>
    /\ resp' = NoAnswer
    /\ sent' = 0
    /\ UNCHANGED <<reqs, answers, cur, metrics>>

(* event_loop returns Err and drops the backend.                           *)
Unwind == pc = "failed" /\ Drop /\ LoopEnds

(* panic = "abort": the kernel takes back every descriptor.                *)
Abort ==
    /\ pc = "panic"
    /\ fdt' = [fd \in FD |-> Free]
    /\ Hangup({c \in Conn : peer[c] # "none"})
    /\ backlog' = {}
    /\ interest' = {}
    /\ ready' = {}
    /\ connections' = {}
    /\ LoopEnds

LoopStep ==
    \/ Wait \/ WaitFails
    \/ ListenEvent \/ AcceptOne \/ RegisterFails \/ AcceptEnds
    \/ ReadRequest \/ ReadEnds \/ CloseFails \/ HandleRequest
    \/ WriteCopies \/ WriteReturns \/ WriteCutShort \/ WriteFails
    \/ Unwind \/ Abort

Clients ==
    /\ \E c \in Conn : ClientStep(c)
    /\ UNCHANGED <<connections, loopVars, metrics>>

Next == LoopStep \/ Clients

Spec == Init /\ [][Next]_vars

-----------------------------------------------------------------------------
(* Safety *)

PcState == {"wait", "dispatch", "accept", "handle", "write", "failed", "panic", "ended"}

(* Type invariant of the event loop, its backend and the sockets.          *)
TypeOK ==
    /\ fdt \in [FD -> Conn \cup {Free, Listener}]
    /\ backlog \subseteq Conn
    /\ peer \in [Conn -> PeerState]
    /\ rx \in [Conn -> Seq(Unit)]
    /\ tx \in [Conn -> Nat]
    /\ interest \subseteq FD
    /\ ready \subseteq FD
    /\ due \in [Conn -> Seq(Unit)]
    /\ reqs \in [Conn -> Nat]
    /\ answers \in [Conn -> Nat]
    /\ fresh \subseteq Conn
    /\ connections \subseteq FD
    /\ pc \in PcState
    /\ events \subseteq FD
    /\ cur \in FD
    /\ buf \in Seq(Unit)
    /\ resp \in Answer
    /\ sent \in Nat
    /\ requests_total \in Nat
    /\ bytes_sent \in Nat

(* The SAFETY comments of epoll.rs ("Reading from valid fd", "Writing to   *)
(* valid fd", "Closing valid fd"): every descriptor in the map is open and *)
(* watched, so the loop never passes a stale number to the kernel and Drop *)
(* closes each socket once.                                                *)
ConnectionsMirrorEpoll ==
    /\ connections = interest
    /\ ready \subseteq interest
    /\ interest \subseteq OpenFds

(* No socket is left open outside the map, where nobody would close it.    *)
(* The one exception is a socket whose registration just failed.           *)
NoDescriptorLeak ==
    \A fd \in OpenFds \ connections : pc \in {"failed", "ended"} /\ fd = cur

(* Accepted sockets are blocking, so a read with nothing to read would     *)
(* stop every connection.  It cannot happen: an event still to be handled  *)
(* names a socket of a client that is readable, whatever was accepted,     *)
(* closed or given the same number since the batch was fetched.            *)
NoBlockingRead ==
    \A fd \in events \ {ListenFd} : fd \in connections /\ Readable(fdt[fd])

(* The descriptor a request came in on still belongs to the same client    *)
(* when the answer is written to it.                                       *)
AnswerGoesToSender ==
    pc \in {"handle", "write"} =>
        /\ cur \in connections \ (events \cup {ListenFd})
        /\ \A i \in DOMAIN buf : buf[i].from = fdt[cur]

(* Edge-triggered sockets report new input once.  Where input arrived      *)
(* since the server last read a connection, the connection is on the ready *)
(* list or in the batch, and a waiting connection keeps the listening      *)
(* socket ready.  What a read leaves behind, beyond its buffer or a FIN    *)
(* after the data, is not new: it has no wakeup until more input arrives.  *)
NoLostWakeup ==
    /\ \A fd \in connections : fdt[fd] \in fresh => fd \in ready \cup events
    /\ backlog # {} => ListenFd \in ready

(* The loop is never stuck, except in a write to a client that does not    *)
(* take its answer: accept, read and close return whatever clients do.     *)
WriteBlocks ==
    pc = "write" /\ sent < resp.len /\ sent < MaxWrite /\ tx[fdt[cur]] = SndBuf

OnlyWriteBlocks == pc = "ended" \/ WriteBlocks \/ ENABLED LoopStep

-----------------------------------------------------------------------------
(* What the invariants above rest on *)

(* The listening socket has its own descriptor for as long as the loop     *)
(* runs.                                                                   *)
ListenerOwned ==
    /\ \A fd \in FD : fdt[fd] = Listener => fd = ListenFd /\ fd \in connections
    /\ ListenFd \in connections => fdt[ListenFd] = Listener
    /\ pc # "ended" => ListenFd \in connections

(* A connection waits, or has one descriptor, or is over.                  *)
OneDescriptor ==
    /\ \A c \in Conn : peer[c] = "none" => c \notin backlog /\ FdsOf(c) = {}
    /\ \A c \in backlog : FdsOf(c) = {}
    /\ \A c \in Conn : \A f, g \in FdsOf(c) : f = g

(* The loop waits again only when the whole batch is handled.              *)
BatchHandled == pc = "wait" => events = {}

FreshIsReadable == \A c \in fresh : Readable(c)

UnitsFromOwner ==
    \A c \in Conn :
        /\ \A i \in DOMAIN rx[c] : rx[c][i].from = c
        /\ \A i \in DOMAIN due[c] : due[c][i].from = c

(* The inductive invariant of the event loop: the promises of its backend  *)
(* to it, together with what makes each step keep them.                    *)
LoopInvariant ==
    /\ TypeOK
    /\ ConnectionsMirrorEpoll
    /\ NoDescriptorLeak
    /\ NoBlockingRead
    /\ AnswerGoesToSender
    /\ NoLostWakeup
    /\ ListenerOwned
    /\ OneDescriptor
    /\ BatchHandled
    /\ FreshIsReadable
    /\ UnitsFromOwner

(* The guards of LoopStep at each place of the loop.                       *)
CanStep ==
    \/ pc = "wait" /\ \E batch \in SUBSET FD : Batch(batch)
    \/ pc = "dispatch" /\ \E fd \in events : fd = ListenFd \/ Readable(fdt[fd])
    \/ pc = "accept" /\ (AcceptFails \/ \E fd \in FD, c \in backlog : fdt[fd] = Free)
    \/ pc = "handle" /\ Parse(buf) # {}
    \/ pc = "write" /\ sent = resp.len
    \/ pc = "write" /\ sent < resp.len
                    /\ \/ sent < MaxWrite /\ Writable(fdt[cur])
                       \/ sent > 0 /\ sent = MaxWrite
                       \/ peer[fdt[cur]] = "reset"
    \/ pc \in {"failed", "panic"}

(* OnlyWriteBlocks without ENABLED: outside a blocked write and before its *)
(* end, the guard of one of the loop's steps holds.                        *)
AlwaysAStep == pc = "ended" \/ WriteBlocks \/ CanStep

(* What this takes beside LoopInvariant: the for loop has an event left, a *)
(* write copies no more than the answer, and no buffer is overfilled.      *)
ProgressInvariant ==
    /\ pc = "dispatch" => events # {}
    /\ pc = "write" => sent <= resp.len /\ sent <= MaxWrite
    /\ \A c \in Conn : tx[c] <= SndBuf
=============================================================================
