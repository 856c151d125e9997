------------------------------- MODULE Server -------------------------------
(***************************************************************************)
(* The life of the server process: main (src/main.rs), Reactor::start and  *)
(* create_listen_socket, and the threads they start.  The event loop is a  *)
(* single place here, which fails as module Reactor says; the workers find *)
(* their queues empty, since nothing in the program fills them (module     *)
(* WorkerPool has the rest).  CPU affinity belongs to a thread and is      *)
(* inherited by the threads it spawns.                                     *)
(***************************************************************************)
EXTENDS Naturals, Sequences, FiniteSets

CONSTANTS
    CommandLine,    \* the command lines the server may be started with
    Numeral,        \* words that are numbers, and what they are
    Ipv4,           \* words that are IPv4 addresses
    Allowed,        \* CPUs the process may run on
    IoUringFeature, \* built with the feature io_uring
    IoUringWorks,   \* io_uring::is_available()
    MayFail         \* calls that may fail, see Calls

(* "metrics": Reactor::new; "spawn": thread::spawn panics; "loop": any     *)
(* call of event_loop.                                                     *)
Calls == {"getrlimit", "metrics", "socket", "bind", "listen", "spawn", "epoll_create",
          "epoll_ctl", "loop"}

ASSUME ServerAssumption ==
    /\ CommandLine \subseteq Seq(STRING)
    /\ \A w \in DOMAIN Numeral : Numeral[w] \in Nat
    /\ IsFiniteSet(Allowed)
    /\ Allowed \subseteq Nat
    /\ Allowed # {}
    /\ IoUringFeature \in BOOLEAN
    /\ IoUringWorks \in BOOLEAN
    /\ MayFail \subseteq Calls

VARIABLES
    pc,         \* where main is
    args,       \* words of the command line that are still to be parsed
    config,     \* ServerConfig
    running,    \* Reactor.running
    sock,       \* the listening socket
    backend,    \* what detect_backend returned
    worker,     \* state of each worker thread
    mask        \* CPU affinity of each thread

vars == <<pc, args, config, running, sock, backend, worker, mask>>

-----------------------------------------------------------------------------
(* ServerConfig and parse_args *)

(* available_parallelism() counts the CPUs the main thread may run on.     *)
Default ==
    [host |-> "0.0.0.0", port |-> 8080, num_workers |-> Cardinality(Allowed),
     mode |-> "FastPath", static_dir |-> "./static", use_io_uring |-> IoUringFeature]

(* word.parse().unwrap_or(default); a port is a u16.                       *)
Number(word, default) == IF word \in DOMAIN Numeral THEN Numeral[word] ELSE default

Port(word) == IF Number(word, 2^16) < 2^16 THEN Numeral[word] ELSE Default.port

OptionField ==
    [o \in {"--host", "--port", "--workers", "--mode", "--static-dir", "--no-io-uring"} |->
        CASE o = "--host" -> "host" [] o = "--port" -> "port" [] o = "--workers" -> "num_workers"
          [] o = "--mode" -> "mode" [] o = "--static-dir" -> "static_dir"
          [] OTHER -> "use_io_uring"]

OptionValue(o, word) ==
    CASE o = "--port" -> Port(word)
      [] o = "--workers" -> Number(word, Default.num_workers)
      [] o = "--mode" -> IF word = "dynamic-path" THEN "DynamicPath" ELSE "FastPath"
      [] o = "--no-io-uring" -> FALSE
      [] OTHER -> word

FieldOf(o) == OptionField[o]

CommandLineOf == INSTANCE Args WITH
    Option <- DOMAIN OptionField \ {"--no-io-uring"}, Switch <- {"--no-io-uring"},
    Help <- {"--help", "-h"}, Field <- FieldOf, Value <- OptionValue

Worker == DOMAIN worker
Main == config.num_workers
Thread == DOMAIN mask

Threads(n) ==
    /\ worker' = [w \in 0..(n - 1) |-> "none"]
    /\ mask' = [t \in 0..n |-> Allowed]

Init ==
    /\ pc = "args"
    /\ args \in CommandLine
    /\ config = Default
    /\ running = FALSE
    /\ sock = "none"
    /\ backend = "none"
    /\ worker = [w \in {} |-> "none"]
    /\ mask = [t \in 0..Default.num_workers |-> Allowed]

(* parse_args, which exits after it has printed the help.                  *)
ParseArgs ==
    /\ pc = "args"
    /\ args' = <<>>
    /\ LET parsed == CommandLineOf!Parse(args, Default) IN
       /\ pc' = IF parsed.help THEN "exited" ELSE "limits"
       /\ config' = parsed.config
       /\ Threads(parsed.config.num_workers)
    /\ UNCHANGED <<running, sock, backend>>

-----------------------------------------------------------------------------
(* CPU affinity *)

(* pin_to_cores: the callers go on when it fails.                          *)
PinToCore(t, core) ==
    mask' = IF core \in Allowed THEN [mask EXCEPT ![t] = {core}] ELSE mask

(* num_cpus::get() counts the CPUs the calling thread may run on.          *)
NumCpus(t) == Cardinality(mask[t])

-----------------------------------------------------------------------------
(* main *)

Goto(at, next) == pc = at /\ pc' = next /\ UNCHANGED <<args, config>>

CheckSystemLimits == Goto("limits", "detect") /\ UNCHANGED <<running, sock, backend, worker, mask>>

DetectBackend ==
    /\ Goto("detect", "pin")
    /\ backend' = IF config.use_io_uring /\ IoUringFeature /\ IoUringWorks
                  THEN "io_uring" ELSE "epoll"
    /\ UNCHANGED <<running, sock, worker, mask>>

PinMain == Goto("pin", "new") /\ PinToCore(Main, 0) /\ UNCHANGED <<running, sock, backend, worker>>

(* Reactor::new: running is FALSE as Init has it, the counters are made.   *)
NewReactor == Goto("new", "start") /\ UNCHANGED <<running, sock, backend, worker, mask>>

Start_Unset ==                      \* mutant: the flag is not set before the threads run
    Goto("start", "socket") /\ UNCHANGED <<running, sock, backend, worker, mask>>

(* start: the flag is set before any thread that reads it exists.          *)
Start == Goto("start", "socket") /\ running' = TRUE /\ UNCHANGED <<sock, backend, worker, mask>>

OpenSocket ==
    Goto("socket", "parse_host") /\ sock' = "open" /\ UNCHANGED <<running, backend, worker, mask>>

ParseHost ==
    /\ config.host \in Ipv4
    /\ Goto("parse_host", "bind")
    /\ UNCHANGED <<running, sock, backend, worker, mask>>

Bind == Goto("bind", "listen") /\ sock' = "bound" /\ UNCHANGED <<running, backend, worker, mask>>

Listen ==
    Goto("listen", "spawn") /\ sock' = "listening" /\ UNCHANGED <<running, backend, worker, mask>>

(* thread::spawn, in the order of the queues.                              *)
Spawn(w) ==
    /\ Goto("spawn", "spawn")
    /\ worker[w] = "none"
    /\ \A v \in Worker : v < w => worker[v] # "none"
    /\ worker' = [worker EXCEPT ![w] = "spawned"]
    /\ mask' = [mask EXCEPT ![w] = mask[Main]]
    /\ UNCHANGED <<running, sock, backend>>

SpawnEnds_Joins ==                  \* mutant: joins the threads before the event loop
    /\ Goto("spawn", "epoll")
    /\ \A w \in Worker : worker[w] = "returned"
    /\ UNCHANGED <<running, sock, backend, worker, mask>>

SpawnEnds ==
    /\ Goto("spawn", "epoll")
    /\ \A w \in Worker : worker[w] # "none"
    /\ UNCHANGED <<running, sock, backend, worker, mask>>

(* EpollBackend::new, whatever detect_backend said; then the listening     *)
(* socket is registered.                                                   *)
CreateEpoll == Goto("epoll", "register") /\ UNCHANGED <<running, sock, backend, worker, mask>>

RegisterListener == Goto("register", "serve") /\ UNCHANGED <<running, sock, backend, worker, mask>>

(* The process ends with an error, and its threads with it: `?` all the    *)
(* way up, or the panic of thread::spawn.  The socket is closed before     *)
(* that only after bind and listen, and by the backend that event_loop     *)
(* drops.                                                                  *)
CallFails(at, call, sock1) == Goto(at, "exited") /\ call \in MayFail /\ sock' = sock1

ThreadsEnd ==
    /\ worker' = [w \in Worker |-> IF worker[w] = "none" THEN "none" ELSE "killed"]
    /\ UNCHANGED <<running, backend, mask>>

SomeCallFails ==
    /\ \/ CallFails("limits", "getrlimit", sock)
       \/ CallFails("new", "metrics", sock)
       \/ CallFails("socket", "socket", sock)
       \/ Goto("parse_host", "exited") /\ config.host \notin Ipv4 /\ UNCHANGED sock
       \/ CallFails("bind", "bind", "closed")
       \/ CallFails("listen", "listen", "closed")
       \/ (\E w \in Worker : worker[w] = "none") /\ CallFails("spawn", "spawn", sock)
       \/ CallFails("epoll", "epoll_create", sock)
       \/ CallFails("register", "epoll_ctl", sock)
    /\ ThreadsEnd

(* event_loop returns an error, which it need never do.                    *)
ServeFails == CallFails("serve", "loop", "closed") /\ ThreadsEnd

MainStep ==
    \/ ParseArgs \/ CheckSystemLimits \/ DetectBackend \/ PinMain
    \/ NewReactor \/ Start \/ OpenSocket \/ ParseHost \/ Bind \/ Listen
    \/ (\E w \in Worker : Spawn(w)) \/ SpawnEnds
    \/ CreateEpoll \/ RegisterListener
    \/ SomeCallFails

-----------------------------------------------------------------------------
(* worker_thread *)

PinWorker(w) ==
    /\ worker[w] = "spawned"
    /\ PinToCore(w, w % NumCpus(w))
    /\ worker' = [worker EXCEPT ![w] = "loop"]
    /\ UNCHANGED <<pc, args, config, running, sock, backend>>

(* while running: pop finds nothing, sleep.                                *)
WorkerIdles(w) ==
    /\ worker[w] = "loop"
    /\ worker' = [worker EXCEPT ![w] = IF running THEN "loop" ELSE "returned"]
    /\ UNCHANGED <<pc, args, config, running, sock, backend, mask>>

(* The loop serves requests, or the process has ended.                     *)
Rests == pc \in {"serve", "exited"} /\ UNCHANGED vars

Next ==
    \/ MainStep
    \/ ServeFails
    \/ \E w \in Worker : PinWorker(w) \/ WorkerIdles(w)
    \/ Rests

Spec == Init /\ [][Next]_vars

(* The main thread and the workers are scheduled by the kernel.  Nothing   *)
(* makes the event loop fail: ServeFails is not fair.                      *)
FairSpec ==
    /\ Spec
    /\ WF_vars(MainStep)
    /\ WF_vars(\E w \in Worker : PinWorker(w) \/ WorkerIdles(w))

-----------------------------------------------------------------------------
(* Properties *)

Places == {"args", "limits", "detect", "pin", "new", "start", "socket", "parse_host", "bind",
           "listen", "spawn", "epoll", "register", "serve", "exited"}

(* Type invariant: a thread runs on CPUs it is allowed.                    *)
TypeOK ==
    /\ pc \in Places
    /\ config.port \in 0..65535
    /\ config.num_workers \in Nat
    /\ running \in BOOLEAN
    /\ sock \in {"none", "open", "bound", "listening", "closed"}
    /\ backend \in {"none", "io_uring", "epoll"}
    /\ worker \in [Worker -> {"none", "spawned", "loop", "returned", "killed"}]
    /\ mask \in [0..Main -> SUBSET Allowed]

(* The loop over the command line sets what the help text says, with       *)
(* options repeated, in any order, without a value or with a value that    *)
(* looks like an option.                                                   *)
ArgsAsDocumented == pc = "args" => CommandLineOf!AsDocumented(args, Default)

(* A worker reads `running` as soon as it is pinned, which may be before   *)
(* the next thread is spawned.  None leaves its loop while the server is   *)
(* up, and none exists before the server listens.                          *)
WorkersStay ==
    \A w \in Worker : worker[w] # "none" =>
        /\ worker[w] # "returned"
        /\ sock \in {"listening", "closed"}

(* Starting comes to an end: the server serves for ever or exits.          *)
ServesOrExits == <>[](pc = "serve") \/ <>[](pc = "exited")

(* README.md: "Each worker pinned to specific core": with a CPU for every  *)
(* worker, no two share one.                                               *)
WorkersSpread ==
    config.num_workers <= Cardinality(Allowed) =>
        \A v, w \in Worker : v # w /\ worker[v] = "loop" /\ worker[w] = "loop"
                                => mask[v] \cap mask[w] = {}

-----------------------------------------------------------------------------
(* What WorkersStay rests on *)

Up == {"spawn", "epoll", "register", "serve"}
Starting == {"socket", "parse_host", "bind", "listen"}

(* Threads exist only when the flag is set and the socket listens, and end *)
(* with the process.                                                       *)
LaunchInvariant ==
    /\ pc \in Places
    /\ worker \in [Worker -> {"none", "spawned", "loop", "killed"}]
    /\ pc \notin Up \cup {"exited"} => \A w \in Worker : worker[w] = "none"
    /\ pc = "exited" => \A w \in Worker : worker[w] \in {"none", "killed"}
    /\ pc \in Starting \cup Up => running
    /\ pc \in Up => sock = "listening"
    /\ WorkersStay
=============================================================================
