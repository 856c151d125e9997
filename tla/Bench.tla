------------------------------- MODULE Bench -------------------------------
(***************************************************************************)
(* The benchmark client (bench/run_bench.rs): one thread per connection    *)
(* that writes a request, reads once and records what it read, and the     *)
(* main thread that joins them and reports.  The server at the far end is  *)
(* external.  It answers each read of its own that holds part of a         *)
(* request, so a request longer than its buffer may get several answers;   *)
(* an answer may arrive in pieces.  A piece carries the number of the      *)
(* request it answers.                                                     *)
(***************************************************************************)
EXTENDS Integers, Sequences, FiniteSets, FiniteSetsExt, Functions

CONSTANTS
    CommandLine,    \* command lines the client may be started with
    Numeral,        \* words that are numbers, and what they are
    HeaderLen,      \* bytes of a request without its payload
    ServerBuf,      \* bytes the server reads at a time
    ReadMax,        \* pieces the 4096 bytes of a read hold
    MaxPieces,      \* bound on the pieces of an answer
    Latency         \* latencies that may be measured

ASSUME BenchAssumption ==
    /\ CommandLine \subseteq Seq(STRING)
    /\ \A w \in DOMAIN Numeral : Numeral[w] \in Nat
    /\ HeaderLen \in Nat \ {0}
    /\ ServerBuf \in Nat \ {0}
    /\ ReadMax \in Nat \ {0}
    /\ MaxPieces \in Nat \ {0}
    /\ Latency \subseteq Nat /\ Latency # {}

VARIABLES
    pc,             \* where main is
    args,           \* words of the command line still to be parsed
    config,         \* BenchmarkConfig
    worker,         \* where each thread is
    sent,           \* requests each thread has written
    got,            \* pieces of its last read
    pending,        \* pieces on their way to it
    inbox,          \* pieces that have arrived
    link,           \* state of its connection: "up", "fin", "reset"
    ragged,         \* history: some answer to it was not a single piece
    total_requests, total_bytes, latencies,     \* BenchmarkStats
    bytes_read      \* history: pieces read by all threads

threadVars == <<worker, sent, got>>
serverVars == <<pending, inbox, link, ragged>>
stats == <<total_requests, total_bytes, latencies>>
vars == <<pc, args, config, threadVars, serverVars, stats, bytes_read>>

-----------------------------------------------------------------------------
(* main: the command line *)

Default == [host |-> "127.0.0.1", port |-> 8080, connections |-> 10, requests |-> 1000,
            payload |-> 128]

OptionField ==
    [o \in {"--host", "--port", "--connections", "-c", "--requests", "-n", "--payload", "-p"} |->
        CASE o = "--host" -> "host" [] o = "--port" -> "port"
          [] o \in {"--connections", "-c"} -> "connections"
          [] o \in {"--requests", "-n"} -> "requests" [] OTHER -> "payload"]

FieldOf(o) == OptionField[o]

OptionValue(o, word) ==
    CASE o = "--host" -> word
      [] o # "--host" /\ word \in DOMAIN Numeral /\ (o = "--port" => Numeral[word] < 65536)
           -> Numeral[word]
      [] OTHER -> Default[FieldOf(o)]

CommandLineOf == INSTANCE Args WITH
    Option <- DOMAIN OptionField, Switch <- {}, Help <- {"--help", "-h"},
    Field <- FieldOf, Value <- OptionValue

Thread == 1..config.connections

Init ==
    /\ pc = "args"
    /\ args \in CommandLine
    /\ config = Default
    /\ worker = <<>>
    /\ sent = <<>>
    /\ got = <<>>
    /\ pending = <<>>
    /\ inbox = <<>>
    /\ link = <<>>
    /\ ragged = {}
    /\ total_requests = 0
    /\ total_bytes = 0
    /\ latencies = <<>>
    /\ bytes_read = 0

ParseArgs ==
    /\ pc = "args"
    /\ args' = <<>>
    /\ LET parsed == CommandLineOf!Parse(args, Default)
           All(x) == [t \in 1..(IF parsed.help THEN 0 ELSE parsed.config.connections) |-> x]
       IN  /\ pc' = IF parsed.help THEN "exited" ELSE "spawn"
           /\ config' = parsed.config
           /\ worker' = All("none")
           /\ sent' = All(0)
           /\ got' = All(0)
           /\ pending' = All(<<>>)
           /\ inbox' = All(<<>>)
           /\ link' = All("up")
    /\ UNCHANGED <<ragged, stats, bytes_read>>

-----------------------------------------------------------------------------
(* run_connection_worker *)

Move(t, from, to) ==
    /\ pc # "exited"
    /\ worker[t] = from
    /\ worker' = [worker EXCEPT ![t] = to]
    /\ UNCHANGED <<pc, args, config>>

Connects(t) ==
    /\ \/ Move(t, "connect", "send")
       \/ Move(t, "connect", "done")        \* refused
    /\ UNCHANGED <<sent, got, serverVars, stats, bytes_read>>

(* The most reads the server makes of a request, each of which it answers. *)
(* It reads once per event, so that there may be fewer.                    *)
MaxAnswers == (HeaderLen + config.payload + ServerBuf - 1) \div ServerBuf

More(t) == sent[t] < config.requests

(* write_all; after FIN the data is answered with RST.                     *)
Sends(t) ==
    /\ More(t)
    /\ link[t] # "reset"
    /\ Move(t, "send", "read")
    /\ sent' = [sent EXCEPT ![t] = @ + 1]
    /\ IF link[t] = "fin" THEN UNCHANGED <<pending, ragged>>
       ELSE \E pieces \in 1..(MaxAnswers * MaxPieces) :
              /\ pending' = [pending EXCEPT ![t] = @ \o [k \in 1..pieces |-> sent[t] + 1]]
              /\ ragged' = IF pieces = 1 THEN ragged ELSE ragged \cup {t}
    /\ UNCHANGED <<got, inbox, link, stats, bytes_read>>

(* The loop is over, or write_all or read fails: Err ends the thread.      *)
(* After a reset, read still returns what has arrived before it.           *)
Ends(t) ==
    /\ \/ Move(t, "send", "done") /\ (~More(t) \/ link[t] = "reset")
       \/ Move(t, "read", "done") /\ link[t] = "reset" /\ inbox[t] = <<>>
    /\ UNCHANGED <<sent, got, serverVars, stats, bytes_read>>

(* read returns what is there, or 0 at the end of the stream, which counts *)
(* like an answer.                                                         *)
Available(t) == Min({Len(inbox[t]), ReadMax})

CanRead_Full(t) == Len(inbox[t]) >= ReadMax     \* mutant: read_exact on the buffer

CanRead_NoWait(t) == TRUE                       \* mutant: a stream that does not block

CanRead(t) == inbox[t] # <<>> \/ link[t] = "fin"

Reads(t) ==
    /\ CanRead(t)
    /\ Move(t, "read", "count")
    /\ got' = [got EXCEPT ![t] = Available(t)]
    /\ inbox' = [inbox EXCEPT ![t] = SubSeq(@, Available(t) + 1, Len(@))]
    /\ bytes_read' = bytes_read + Available(t)
    /\ UNCHANGED <<sent, pending, link, ragged, stats>>

-----------------------------------------------------------------------------
(* record_request: two atomic counters, then the latencies under a lock *)

CountsRequest(t) ==
    /\ Move(t, "count", "bytes")
    /\ total_requests' = total_requests + 1
    /\ UNCHANGED <<sent, got, serverVars, total_bytes, latencies, bytes_read>>

CountsBytes_OfBuffer(t) ==                      \* mutant: response.len()
    /\ Move(t, "bytes", "push")
    /\ total_bytes' = total_bytes + ReadMax
    /\ UNCHANGED <<sent, got, serverVars, total_requests, latencies, bytes_read>>

CountsBytes(t) ==
    /\ Move(t, "bytes", "push")
    /\ total_bytes' = total_bytes + got[t]
    /\ UNCHANGED <<sent, got, serverVars, total_requests, latencies, bytes_read>>

PushesLatency(t) ==
    /\ Move(t, "push", "send")
    /\ \E l \in Latency : latencies' = Append(latencies, l)
    /\ UNCHANGED <<sent, got, serverVars, total_requests, total_bytes, bytes_read>>

ThreadStep(t) ==
    \/ Connects(t) \/ Sends(t) \/ Ends(t) \/ Reads(t)
    \/ CountsRequest(t) \/ CountsBytes(t) \/ PushesLatency(t)

-----------------------------------------------------------------------------
(* run_benchmark *)

Spawns ==
    /\ pc = "spawn"
    /\ IF \E t \in Thread : worker[t] = "none"
       THEN /\ worker' = [worker EXCEPT ![Min({t \in Thread : worker[t] = "none"})] = "connect"]
            /\ UNCHANGED pc
       ELSE pc' = "join" /\ UNCHANGED worker
    /\ UNCHANGED <<args, config, sent, got, serverVars, stats, bytes_read>>

(* thread::spawn panics, which ends the process.                           *)
SpawnFails ==
    /\ pc = "spawn"
    /\ \E t \in Thread : worker[t] = "none"
    /\ pc' = "exited"
    /\ UNCHANGED <<args, config, threadVars, serverVars, stats, bytes_read>>

Prints_Unsorted ==                              \* mutant: latencies in order of arrival
    /\ pc = "join"
    /\ \A t \in Thread : worker[t] = "done"
    /\ pc' = "export"
    /\ UNCHANGED <<args, config, threadVars, serverVars, stats, bytes_read>>

(* print_results sorts the latencies where they are.                       *)
Prints ==
    /\ pc = "join"
    /\ \A t \in Thread : worker[t] = "done"
    /\ \E p \in Bijection(DOMAIN latencies, DOMAIN latencies) :
         /\ latencies' = [k \in DOMAIN latencies |-> latencies[p[k]]]
         /\ \A j, k \in DOMAIN latencies : j <= k => latencies'[j] <= latencies'[k]
    /\ pc' = "export"
    /\ UNCHANGED <<args, config, threadVars, serverVars, total_requests, total_bytes, bytes_read>>

(* export_csv; main returns its error, if any.                             *)
Exports ==
    /\ pc = "export"
    /\ pc' = "exited"
    /\ UNCHANGED <<args, config, threadVars, serverVars, stats, bytes_read>>

MainStep == ParseArgs \/ Spawns \/ SpawnFails \/ Prints \/ Exports

-----------------------------------------------------------------------------
(* The server and the network *)

Deliver(t) ==
    /\ pending[t] # <<>>
    /\ pending' = [pending EXCEPT ![t] = Tail(@)]
    /\ inbox' = [inbox EXCEPT ![t] = Append(@, Head(pending[t]))]
    /\ UNCHANGED <<pc, args, config, threadVars, link, ragged, stats, bytes_read>>

(* The server closes the connection, or the host resets it.                *)
Hangs(t, how) ==
    /\ worker[t] \notin {"none", "connect", "done"}
    /\ link[t] = "up" \/ (link[t] = "fin" /\ how = "reset")
    /\ link' = [link EXCEPT ![t] = how]
    /\ pending' = [pending EXCEPT ![t] = <<>>]
    /\ UNCHANGED <<pc, args, config, threadVars, inbox, ragged, stats, bytes_read>>

Rests == pc = "exited" /\ UNCHANGED vars

Next ==
    \/ MainStep
    \/ \E t \in DOMAIN worker : ThreadStep(t) \/ Deliver(t) \/ \E how \in {"fin", "reset"} : Hangs(t, how)
    \/ Rests

Spec == Init /\ [][Next]_vars

(* Threads are scheduled and what the server sends arrives.                *)
FairSpec ==
    /\ Spec
    /\ WF_vars(MainStep)
    /\ WF_vars(\E t \in DOMAIN worker : ThreadStep(t))
    /\ WF_vars(\E t \in DOMAIN worker : Deliver(t))

-----------------------------------------------------------------------------
(* Properties *)

Port == {p \in Nat : p < 65536}

BenchConfig ==
    [host : STRING \cup {Default.host}, port : Port,
     connections : Nat, requests : Nat, payload : Nat]

Place == {"none", "connect", "send", "read", "count", "bytes", "push", "done"}

(* Type invariant: no more requests than asked for are written.            *)
TypeOK ==
    /\ pc \in {"args", "spawn", "join", "export", "exited"}
    /\ args \in Seq(STRING)
    /\ config \in BenchConfig
    /\ worker \in Seq(Place)
    /\ sent \in [DOMAIN worker -> 0..config.requests]
    /\ got \in [DOMAIN worker -> Nat]
    /\ pending \in [DOMAIN worker -> Seq(Nat)]
    /\ inbox \in [DOMAIN worker -> Seq(Nat)]
    /\ link \in [DOMAIN worker -> {"up", "fin", "reset"}]
    /\ ragged \subseteq DOMAIN worker
    /\ total_requests \in Nat /\ total_bytes \in Nat /\ bytes_read \in Nat
    /\ latencies \in Seq(Latency)

(* As long as every answer is one piece, the latency recorded is that of   *)
(* the request it is recorded for: a read never finds what is left of an   *)
(* earlier answer.  One request that gets two answers, or one answer in    *)
(* two pieces, and all later reads are out of step.                        *)
InStep ==
    \A t \in DOMAIN worker \ ragged :
        /\ \A k \in DOMAIN inbox[t] : inbox[t][k] = sent[t]
        /\ worker[t] = "send" => inbox[t] = <<>>

Recording(places) == {t \in DOMAIN worker : worker[t] \in places}

(* What each thread has read and not yet added to total_bytes.             *)
Unrecorded ==
    [t \in DOMAIN worker |-> IF worker[t] \in {"count", "bytes"} THEN got[t] ELSE 0]

(* A sum over threads, which proofs can follow step by step.               *)
Total(f, n) ==
    LET upto[t \in 0..n] == IF t = 0 THEN 0 ELSE upto[t - 1] + f[t]
    IN  upto[n]

(* The three statistics are updated one after the other.  They differ by   *)
(* the threads in between and agree when the results are printed.          *)
StatsAgree ==
    /\ total_requests = Len(latencies) + Cardinality(Recording({"bytes", "push"}))
    /\ bytes_read = total_bytes + Total(Unrecorded, Len(worker))

(* latencies[len * p / 100] exists, and p percent of the requests took no  *)
(* longer.                                                                 *)
PercentilesRight ==
    pc = "export" /\ latencies # <<>> =>
        \A p \in {50, 95, 99} :
            LET i == 1 + (Len(latencies) * p) \div 100 IN
            /\ i \in DOMAIN latencies
            /\ 100 * Cardinality({k \in DOMAIN latencies : latencies[k] <= latencies[i]})
                    >= p * Len(latencies)

(* The client ends, whether the server answers or gives up connections.    *)
Terminates == <>(pc = "exited")

-----------------------------------------------------------------------------
(* What InStep rests on *)

(* The last answer is on its way or has arrived, whole, and only while the *)
(* thread has not read it.                                                 *)
OneAnswer(t) ==
    /\ pending[t] \in Seq(Nat) /\ inbox[t] \in Seq(Nat)
    /\ Len(pending[t]) + Len(inbox[t]) <= 1
    /\ \A k \in DOMAIN pending[t] : pending[t][k] = sent[t]
    /\ \A k \in DOMAIN inbox[t] : inbox[t][k] = sent[t]
    /\ worker[t] \notin {"read", "done"} => pending[t] = <<>> /\ inbox[t] = <<>>
    /\ link[t] # "up" => pending[t] = <<>>

StepInvariant ==
    /\ worker \in [DOMAIN worker -> Place]
    /\ sent \in [DOMAIN worker -> Nat]
    /\ link \in [DOMAIN worker -> {"up", "fin", "reset"}]
    /\ pending = [t \in DOMAIN worker |-> pending[t]]
    /\ inbox = [t \in DOMAIN worker |-> inbox[t]]
    /\ pc = "args" => worker = <<>>
    /\ pc = "spawn" => DOMAIN worker = Thread
    /\ \A t \in DOMAIN worker \ ragged : OneAnswer(t)

-----------------------------------------------------------------------------
(* What StatsAgree and PercentilesRight rest on *)

(* The threads are those of the configuration, and all are done when the   *)
(* results are printed.                                                    *)
ThreadsKnown ==
    /\ pc = "args" => worker = <<>>
    /\ pc \in {"spawn", "join", "export"} => DOMAIN worker = Thread
    /\ pc = "export" => \A t \in DOMAIN worker : worker[t] = "done"

SortedAtEnd ==
    pc = "export" => \A j, k \in DOMAIN latencies : j <= k => latencies[j] <= latencies[k]

ReportInvariant == TypeOK /\ ThreadsKnown /\ SortedAtEnd /\ StatsAgree
=============================================================================
