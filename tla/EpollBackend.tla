---------------------------- MODULE EpollBackend ----------------------------
(***************************************************************************)
(* EpollBackend (src/net/epoll.rs): the methods the event loop calls, as   *)
(* action fragments over the kernel state of Sockets and the backend's own *)
(* map of connections.  Only the keys of the map are kept: the program     *)
(* never reads or updates a ConnectionState after register inserts it.     *)
(***************************************************************************)
EXTENDS Sockets

CONSTANTS
    MaxEvents,  \* EpollBackend::new(max_events)
    BufLen,     \* units the read buffer of the event loop holds
    MaxWrite    \* units one write(2) takes at most, MAX_RW_COUNT bytes

ASSUME EpollAssumption ==
    /\ MaxEvents \in Nat \ {0}
    /\ BufLen \in Nat \ {0}
    /\ MaxWrite \in Nat \ {0}

VARIABLE connections    \* keys of EpollBackend.connections

(* new() and the registration of the listening socket.                     *)
EpollInit ==
    /\ interest = {ListenFd}
    /\ ready = {}
    /\ connections = {ListenFd}

(* process_events and wait: up to max_events of the descriptors that are   *)
(* ready; a level-triggered one stays on the ready list.  The batch is     *)
(* empty when the timeout expires.                                         *)
Ready == {fd \in ready : Pollable(fd)}

Batch(events) ==
    /\ events \subseteq Ready
    /\ Cardinality(events) = IF Cardinality(Ready) < MaxEvents
                             THEN Cardinality(Ready) ELSE MaxEvents

ProcessEvents_Truncates(events) ==      \* mutant: forgets what is over max_events
    /\ Batch(events)
    /\ ready' = events \cap {ListenFd}

ProcessEvents_AllEdges(events) ==       \* mutant: the listening socket with EPOLLET
    /\ Batch(events)
    /\ ready' = Ready \ events

ProcessEvents(events) ==
    /\ Batch(events)
    /\ ready' = (Ready \ events) \cup (events \cap {ListenFd})

(* accept: the kernel takes a free descriptor for a waiting connection.    *)
Accept(fd, c) ==
    /\ c \in backlog
    /\ fdt[fd] = Free
    /\ backlog' = backlog \ {c}
    /\ fdt' = [fdt EXCEPT ![fd] = c]

AcceptFails_Waits == ~CanOpen    \* mutant: the listening socket blocks too

AcceptFails == backlog = {} \/ ~CanOpen

(* register: EPOLL_CTL_ADD polls the descriptor, so input that came before *)
(* it raises the edge.                                                     *)
Register(fd, c) ==
    /\ interest' = interest \cup {fd}
    /\ ready' = IF Readable(c) THEN ready \cup {fd} ELSE ready
    /\ connections' = connections \cup {fd}

(* read: as much as is there and fits.                                     *)
ReadLen(c) == IF Len(rx[c]) < BufLen THEN Len(rx[c]) ELSE BufLen

ReadData(c) == SubSeq(rx[c], 1, ReadLen(c))

Read(c) ==
    /\ rx' = [rx EXCEPT ![c] = SubSeq(@, ReadLen(c) + 1, Len(@))]
    /\ fresh' = fresh \ {c}

Unregister_KeepsEntry(fd) ==    \* mutant: leaves the key in the map
    /\ interest' = interest \ {fd}
    /\ ready' = ready \ {fd}
    /\ UNCHANGED connections

(* unregister: EPOLL_CTL_DEL also takes the descriptor off the ready list. *)
Unregister(fd) ==
    /\ interest' = interest \ {fd}
    /\ ready' = ready \ {fd}
    /\ connections' = connections \ {fd}

Close_KeepsFd(fd) ==        \* mutant: unregister without close(2)
    /\ Unregister(fd)
    /\ Hangup({})
    /\ UNCHANGED <<backlog, fdt>>

(* close: unregister, then close(2).  Of a descriptor in the map           *)
(* EPOLL_CTL_DEL does not fail, and close(2) gives it up even when it      *)
(* returns an error.                                                       *)
Close(fd) ==
    /\ Unregister(fd)
    /\ fdt' = [fdt EXCEPT ![fd] = Free]
    /\ Hangup({fdt[fd]})
    /\ UNCHANGED backlog

(* drop: close every key of the map, whatever close returns.  Closing the  *)
(* listening socket resets what waits in its queue.                        *)
Drop ==
    /\ interest' = interest \ connections
    /\ ready' = ready \ connections
    /\ connections' = {}
    /\ fdt' = [fd \in FD |-> IF fd \in connections THEN Free ELSE fdt[fd]]
    /\ Hangup({c \in Conn : c \in backlog \/ FdsOf(c) \cap connections # {}})
    /\ backlog' = {}
=============================================================================
