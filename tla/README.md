# A TLA+ model of RustKernelEngine

RustKernelEngine is an HTTP/1.1 server in Rust for Linux: one thread runs an
edge-triggered epoll loop that reads, parses, answers and closes connections,
beside a pool of worker threads with work-stealing queues, an io_uring backend,
a few zero-copy file helpers and a benchmark client. This directory models the
parts that carry its logic, checks them with TLC on small instances and proves
the main safety properties with TLAPS for all instances. Source paths below are
relative to the repository.

## 1. Inventory

### Components

| Part | Source | State | Operations |
|---|---|---|---|
| Event loop | `src/worker/reactor.rs` `event_loop`, `handle_request` | the batch of events, the request in hand, `requests_total`, `bytes_sent` | wait, accept until it fails, read once, handle, write, close; `?` on any error ends the loop |
| Epoll backend | `src/net/epoll.rs` | `epoll_fd`, `connections` (by descriptor) | `new`, `register`, `unregister`, `wait`, `process_events`, `read`, `write`, `accept`, `close`, `drop` |
| Request handlers | `reactor.rs`, `src/http/*` | none | `parse`, `handle_static_file`, `handle_dynamic`, response builders, `to_bytes`, `clean_path`, `query_params`, `decode` |
| Memory-mapped files | `src/file/mmap.rs` | an open file, a mapping and its length | `new`, `as_slice`, `drop` |
| Work-stealing queues | `src/worker/queue.rs` | one `ArrayQueue` per worker, each shared with all the others | `push`, `pop` (own queue, then steal) |
| Worker threads | `reactor.rs` `worker_thread` | whether the thread is in its loop | pop a task, process it, leave on `Shutdown`, sleep |
| Process start and end | `src/main.rs`, `reactor.rs` `start`, `create_listen_socket` | `running`, the configuration, the listening socket, the threads | `parse_args`, limits, detect, pin, socket/bind/listen, spawn, serve, exit |
| CPU affinity | `src/sys/cpu_affinity.rs` | the mask of each thread (kernel) | `pin_to_cores` |
| sendfile | `src/file/sendfile.rs` | `offset`, `total_sent` of one call | `send_file`, `send_entire_file` |
| io_uring backend | `src/net/io_uring.rs` | submission and completion queue | `new`, `submit_read`/`write`/`accept`/`sendfile`, `batch_submit`, `wait_for_completion`, `is_available`; only the last has a caller |
| Tuning | `src/sys/tuning.rs` | none | `check_file_descriptors`; reports |
| Benchmark client | `bench/run_bench.rs` | counters and latencies shared by its threads | parse options, one thread per connection, report |
| DPDK adapter, backend trait, scripts | `src/net/dpdk_adapter.rs`, `src/net/mod.rs`, `scripts/` | | not modelled, see section 8 |

### How they interact

`main` checks limits, picks (and only logs) a backend, pins itself to CPU 0 and
calls `Reactor::start`, which creates the listening socket, spawns the workers
and enters `event_loop` in the main thread. The loop owns the backend, calls
the handlers synchronously and writes the answer before it looks at the next
event. The workers share nothing with the loop: nothing pushes to their queues,
and nothing clears `running`. `send_entire_file` and `IoUringBackend` are library
code without a caller in the server. The benchmark client is a program of its own.

### What is hard

The list under `hazards` in `PROJECT.json` gives each at its line. In short:

* accepted sockets are *blocking* and *edge-triggered*, read once per event by
  the only thread there is; events are named by descriptor numbers that change
  hands while a batch is handled;
* every error travels up by `?` and ends the loop, with descriptors in
  different states of registration; a panic aborts the process;
* requests are cut, pipelined, abandoned and reset by clients; descriptors run
  out; FIN hides behind data;
* `pop` is not atomic across queues; `Shutdown` may be stolen;
* affinity masks are inherited; `running` is read by threads as they are spawned;
* files are removed, replaced and change length while they are served or sent;
* io_uring: an operation is accepted, queued, taken, completed and reported at
  five different moments, each of which may fail, and a completion names only
  a descriptor;
* the benchmark client reads once per request, whatever the server sent.

### What makes each part correct

* Event loop: it reads only what is readable, answers the client that asked,
  loses no wakeup, leaks no descriptor, answers well-behaved clients once per
  request, and notices clients that close or are reset.
* Queues and workers: no task is lost or processed twice, `None` means there
  was nothing, every worker stops when the pool is stopped and no job stays.
* Start: the server serves or exits; workers stay while it serves.
* Handlers: a site updated by rename is served without error and never half
  new; an error, which stops the loop, has a cause in the file or the system;
  queries are decoded as they were encoded.
* sendfile: the socket gets a prefix of the file; an error means nothing was sent.
* io_uring: no operation is lost or reported twice, and a buffer is not given
  back while the kernel may use it; a count fits the buffer of its operation.
* Benchmark: a latency belongs to the request it is recorded for, the totals
  agree, and the program ends.

## 2. Modules

| Module | Models | EXTENDS / INSTANCE |
|---|---|---|
| `Http` | parser and handlers as operators, in one step | |
| `Response`, `Target` | response builders; path, query and decoding, as operators | |
| `Handlers`, `MCHandlers`, `HandlersProofs` | the handlers one system call at a time, with other processes changing the file; proofs | `Response`, `Target`; INSTANCE `Http` |
| `Sockets` | kernel sockets, descriptors, epoll lists, clients (external) | `Http` |
| `EpollBackend` | the backend's methods as action fragments | `Sockets` |
| `Reactor` | event loop; safety properties and the inductive invariant | `EpollBackend` |
| `HttpService` | abstract: one answer per request, eventually | |
| `ReactorService` | fairness, properties seen by clients, refinement | `Reactor`; INSTANCE `HttpService` |
| `MCReactor` | TLC instances | `ReactorService` |
| `ReactorProofs` | proofs: the loop with any clients; with well-behaved ones, and the refinement of `HttpService` | `ReactorService`, `Recursion` |
| `WorkStealingQueue` | the queues | |
| `WorkerPool` | workers over the queues | `WorkStealingQueue`; INSTANCE `TaskPool` |
| `TaskPool` | abstract: each job once, eventually | |
| `MCWorkerPool`, `WorkerPoolProofs` | TLC instances, proofs | `WorkerPool` |
| `Args` | the loop over a command line, and what its help text promises | |
| `Server`, `MCServer`, `ServerProofs` | the life of the process, its threads and their CPUs; proofs | INSTANCE `Args` |
| `SendFile`, `SendFileProofs` | `send_entire_file`, proofs | |
| `IoUring`, `MCIoUring`, `IoUringProofs` | `IoUringBackend`, the kernel's side and a caller; proofs | |
| `Bench`, `MCBench`, `BenchProofs` | the benchmark client and the server it talks to; proofs | INSTANCE `Args` |
| `Recursion` | lemmas on induction and recursion over the naturals, for the proofs of the others | |

### Correspondence with the code

**Reactor.** `pc` is the place in `event_loop`: `wait` (line 171), `dispatch`
(the `for`), `accept` (the inner loop), `handle` and `write` (in
`handle_request`), `failed` (an `Err` on its way up), `panic`, `ended`. One
action runs from one system call to the next; clients move in between. `Wait`
takes a batch, `ListenEvent`/`AcceptOne`/`AcceptEnds` are the accept loop,
`ReadRequest` and `ReadEnds` the two arms of the read, `HandleRequest` runs up
to the write, `WriteCopies`/`WriteReturns`/`WriteCutShort`/`WriteFails` are the
blocking write, of which one call takes `MaxWrite` units at most,
`RegisterFails`/`WaitFails`/`CloseFails` failing calls. `close(2)` gives the
descriptor up even when it fails, so `CloseFails` differs from `ReadEnds` in
where the loop goes on. `Unwind` is the
return with `Err`, which drops the backend; `Abort` is `panic = "abort"` of
`Cargo.toml`. The order of the events in a batch is not fixed by epoll, so
`events` is a set.

**Data.** The bytes of a connection are units tagged with the client, the
request and which part of it they are (whole, first or second half of a header
block, headers, body), so that a property can say whose bytes were read and a
cut request can be told from a whole one. `Parse` gives the set of results that
`HttpRequest::parse` may return for a buffer; where the buffer starts inside a
request the result depends on the bytes, so several are possible. An answer is
one unit, plus `FileLen` for a file. A request's path is what `clean_path`
leaves of it. `FileKind` says what a path names below `static_dir`; files do
not change while a request is handled (`Handlers` is about files that do).
Wording, headers and content types are left out.

**Sockets.** `fdt` is the descriptor table; every number in `FD` but the
listening socket's can be reused at once. `ready` is the kernel's ready list:
input raises an edge for a watched descriptor, `EPOLL_CTL_ADD` polls, a
level-triggered descriptor stays on the list, and what is no longer readable is
dropped when the list is walked. `fresh` is a history variable: connections
with input since they were last read. A client leaves in three ways: it closes
(FIN, and from then on its host answers data with RST), it resets, or it shuts
its sending side down (`shut`: FIN, and it goes on reading). A close after that
(`CloseShut`) sends no packet and raises no edge: the server learns of it
only from an RST to what it writes later, if it writes.

**WorkerPool.** `scan[w]` is the index of the queue that `pop` of worker `w`
tries next; a call on one queue is atomic (`ArrayQueue` is linearizable), the
scan is not. `resident[w]` is a history variable: the jobs queued without
interruption since the pop began. No code submits tasks, so `Submit` and `Stop`
are an external thread that uses `push`/`local()` and, once it has sent a
queue its `Shutdown`, sends nothing more to it. All tasks other than `Shutdown`
are jobs: the two arms that handle them have no effect but a log line.

**Server.** One action per step of `main` and `start`; `SomeCallFails` has one
disjunct for each call that can return an error before the loop is reached,
`Reactor::new` included, and `ServeFails` is an error of the loop itself. Each thread has a CPU mask,
which a new thread inherits; `num_cpus::get()` counts the mask of the caller.
The event loop is a single place here; `Reactor` has its details. `ParseArgs` runs the loop of `parse_args` over one of the
command lines in `CommandLine`; `Args` has that loop as an operator, with the
options as parameters, because `main` of the benchmark has the same one: `Turn`
is the `match`, `Loop` adds the condition of the `while`.

**SendFile.** A position stands for the byte of the file at that offset.
`sendfile` takes any non-zero part of what is there and asked for, or fails;
`Resize` changes the file between calls.

**Handlers.** `pc` is the system call that comes next: `exists`, `open`,
`metadata`, `mmap`, and `copy` once for each page. Each of the first four may
fail on a file that is there (`CallFails`): `exists` then says that there is none,
the others return `Err`. A file is an inode with bytes
that say which change wrote them, so that a body can be compared with the
versions the file has had; names are links, so that an open file survives its
removal and its replacement. `Http` has the same handlers in one step, and
`AtomicWhenQuiet` says that this is right as long as files do not change and no
call fails. The
handler returns to the event loop as `done` (an answer), `err` (which ends the
loop), `panic` or `sigbus` (which end the process). A target is a sequence of
characters from the ones that mean something to `query_params` and `decode`
(`space` stands for the blank), with one that does not; the path is one element.
`decode` is a machine that takes one character after the other: `Take` is a turn
of its loop, and the two `chars.next()` after a `%` are turns of their own with
an escape open. Encoding (`Escape` to `Sent`) is the client's side and external.

**IoUring.** `sq` is the submission queue, of the length the kernel makes it (a
power of two), `kernel` what it has taken, `cq` the completions, twice as many
as `sq` has entries; when `cq` is full the kernel holds completions back. Each submit
method is `PushFails`, `SubmitFails` or `Submit`, which differ in where the
method returns; they differ among themselves in the entry only. `Wait` enters
the kernel, `ReadCompletions` drains the queue. `asked` and `told` are the
caller, who is external: it keeps one operation per descriptor, since
completions name nothing else, and believes what the methods return.
`Width` is 32 in the code.

**Bench.** `worker[t]` is the place of a thread in `run_connection_worker` and
`record_request`, whose three updates are three steps. The server is external:
`Sends` puts the answers on their way, at least one and at most one for each
8192 bytes of the request (the server reads once per event), each in one or more
pieces that carry the number of the request; `Deliver` and `Hangs` are the
network. After a reset what had arrived before it can still be read. The latency is any member of `Latency`, chosen when it
is recorded. `print_results` sorts: `Prints` takes any order of the latencies that
ascends, which is what `sort` gives.

## 3. Runs

Passing runs (distinct states in parentheses):

* `faults` (590154): 3 connections over 2 client descriptors, so that a number is
  reused while events wait, and batches of 2 out of 3 ready descriptors; a file,
  a directory and an empty path, files longer than one write takes, resets,
  failing `epoll_wait`, `epoll_ctl` and `close`.
  Checks `ConnectionsMirrorEpoll`, `NoDescriptorLeak`, `NoBlockingRead`,
  `AnswerGoesToSender`, `NoLostWakeup`, `OnlyWriteBlocks` and the whole inductive
  `LoopInvariant` (the type invariant included) through to the end of the loop by
  error and by panic. With both descriptors in use open fails.
* `service` (29812): clients that send whole requests and wait for the answers.
  The loop implements `HttpService`, does not end (`LoopSurvives`) and does not
  sleep on an unanswered request (`SleepsOnlyWhenAnswered`). Deadlock is checked.
* `hangup` (115204): two clients that leave at any time over one descriptor, with
  requests cut in the header block or before the body and buffers that join the
  parts. `HangupNoticed`: a client that closes or is reset does not keep its
  descriptor. `BacklogServed`: if no client stays for ever, a waiting connection
  is accepted, unless the descriptors are held for ever by clients that
  half-closed before they closed. That exception is real: a FIN behind the
  request in one edge is not read, and the close sends nothing.
* `pool` (234810): 3 workers, 2 jobs, queues of 2. Three workers are the
  fewest for which a steal can be overtaken in a queue already tried and in one
  still to be tried; capacity 2 makes queues fill up with jobs and a `Shutdown`.
  Checks `NoneMeansNoJob`, `JobsConserved`, `ShutdownForEach`, `NoJobStranded`,
  `AllStop` and the refinement of `TaskPool`.
* `start` (15819): every command line of up to four words out of options,
  values and words that are neither, workers on CPUs {1, 2}, so that pinning to
  CPU 0 fails and pinning to a worker's number fails for some and succeeds for
  others; every call may fail. `ArgsAsDocumented` compares the loop of
  `parse_args` with a definition that looks at the line as a whole: the word
  after an option is its value, the last setting counts.
* `resize` (164): files up to 4, at most 2 per call, so that a file takes
  several calls and shrinks below and grows beyond what was sent.
* `uring` (348766): 3 operations on 3 descriptors through a queue of 2, lengths of
  2 bits, 3 faults (a failing, partial or interrupted `io_uring_enter`). Three
  operations are what it takes to leave one queued, fail one and retry it. They
  do not fill the completion queue of 4; the proofs hold for any depth.
* `handlers` (639315): files of up to 3 bytes on pages of 2, 3 changes by other
  processes anywhere between the steps, any call failing, 2 inodes, both modes,
  every path and method the handlers tell apart with `HEAD`, and forms of two
  fields over keys and values that contain the separators.
* `bench` (222078): 2 connections with one request each, of the default size and
  of 10240 bytes (which the tool itself suggests, and which the server may
  read in two pieces), 1 connection with 3 requests, none, and `-h`; answers of one or two
  pieces, close and reset at any time.

The type invariants of `Server`, `Handlers`, `Bench` and `SendFile` hold in these
instances too; they are not among the listed properties.

`CHECK_DEADLOCK FALSE` is set where the system may stop: when the event loop
has ended and all clients are gone, when two clients both stop reading, when
`send_entire_file` or a handler has returned, and when the caller of io_uring
has no more operations.

Violation runs, each a disagreement of the code with a line of its documentation
(quoted under `findings`):

* `requests_total`: "Total number of requests" counts reads, so a cut request
  counts twice;
* `pinning`: "Each worker pinned to specific core" - all are pinned to CPU 0,
  because they count the CPUs of the mask inherited from the main thread;
* `mapping`: "The mapping will remain valid as long as the File is alive" - a
  truncation after `mmap` makes the copy fault.

More disagreements and oddities, met on the way, have no run:

* `detect_backend` is only logged and `event_loop` always uses epoll
  (`reactor.rs:167`, against "If available and enabled, use io_uring",
  `README.md:387`);
* `start` never reaches the joins after "Wait for workers" (`reactor.rs:99`),
  because `event_loop` returns only with an error;
* requests are handled by the main thread and nothing is pushed to a queue
  (`reactor.rs:191`, against "Worker threads: Process requests using
  work-stealing queues", `README.md:373`);
* `bytes_sent` ("Total bytes sent", `reactor.rs:43`) counts the whole answer also
  when write returned a short count, after a reset or for a file longer than one
  write takes (`reactor.rs:257`);
* in FastPath mode `HEAD` is answered with a body, as the method is not looked
  at (`reactor.rs:268`);
* a client that half-closes behind its request, takes the answer and closes
  leaves the server with a descriptor in CLOSE_WAIT for ever (`reactor.rs:188`);
* `Connection: close` is ignored, and the Content-Type that `/api/metrics` sets
  (`version=0.0.4`) is overwritten by `text()`;
* a malformed escape makes the whole key or value empty, and bytes above 127
  are decoded as Latin-1 (`parser.rs:137`);
* `submit_sendfile` splices from a file to a socket without a pipe, which the
  kernel refuses; in `IoUring` such an operation completes with an error;
* `export_csv` numbers the latencies after `print_results` has sorted them, so
  `request_num` is not the number of a request; a read of 0 bytes counts as a
  request; `duration_secs` is not used;
* `get_affinity_mask` and `pin_to_numa_node` take the number of CPUs in the mask
  for the number of CPUs there are (`cpu_affinity.rs`), as the workers do.

### Bounds

`MaxReq` bounds the requests of a connection, `MaxLen` the file, `MaxChanges` the
changes of other processes, `MaxOps` the operations of the io_uring caller,
`MaxFaults` the failures of `io_uring_enter` and `MaxPieces` the pieces of an
answer; all are guards of external actions. `MaxWrite` is the kernel's limit on
one `write(2)`, 2^31 - 4096 bytes on Linux; the runs make it 2 units, which the
files of `faults` exceed and the others do not. The counters need no bound of their own, since
requests are bounded. Bodies and buffers are 1 or 2 units: enough for a write
that blocks and one that is cut short (`SndBuf` 1, answers of 2), and for a
read that leaves data behind or joins two requests.

## 4. Fairness

* `LoopFairness` (weak, on the loop's next step): the main thread is scheduled
  and does not stop by itself.
* `NetworkFairness` (weak, per client): a client takes what it is sent, the
  rest of a cut request arrives, a gone client's host answers data with RST.
  The first is an assumption about clients that the code needs: `write` blocks,
  so a client that never reads stops the server for everyone.
* `LeavingFairness` (the premise of `BacklogServed`): no client stays connected for
  ever, without which one connection could keep the only descriptor: a client
  closes, or closes after it half-closed.
* `WorkerPool`: weak fairness of each worker, a kernel thread that wakes up
  after 100 microseconds. None for the submitting thread.
* `Server`: weak fairness of the main thread and of each worker. `ServeFails` is
  not fair: the loop may serve for ever.
* `SendFile`: weak fairness of the calls that make progress; other processes
  may change the file for ever.
* `IoUring`: the caller waits while it expects completions, and the kernel
  completes what it took. Faults are bounded, so a retry succeeds in the end.
* `Bench`: the main thread and the connection threads are scheduled, and what the
  server sent arrives. The server always answers, closes or resets: `read` has
  no timeout, so a server that does neither stops the client for ever.
* `Handlers` has no liveness property.

## 5. Theorems

Two are refinements (`Spec => PoolSafety`, `Spec => ServiceSafety`: every step
is a step of the abstract specification or leaves its variables alone), the
others have the form `Spec => []P`. They hold for every value of the constants
that satisfies the named ASSUMEs of the modules; those about well-behaved
clients also assume `WellBehaved`, see there. Each inductive invariant is
defined at the end of the module it is about and was checked by TLC, in the
instance of its run, before it was proved.

**ReactorProofs.** `LoopInvariant` is inductive. The properties of interest are
not so alone, and each leans on others: `NoBlockingRead` needs to know that a
number in the batch still belongs to a connection that the map knows
(`ConnectionsMirrorEpoll`), that a number given out by accept was free and so
not in the batch, and that nobody but the loop takes data away; the last needs
`OneDescriptor`, since two numbers for one socket would make the second read
block. `NoLostWakeup` needs `FreshIsReadable` (otherwise the kernel drops the
descriptor when it walks the ready list) and `BatchHandled` (otherwise fetching
a new batch forgets the old). `AnswerGoesToSender` needs `UnitsFromOwner`, and
that `cur` is not in the batch while a request is handled. `ListenerOwned` keeps
the listening socket out of all this. The proof has one lemma per kind of step
(client steps, wait, accept, read, close, write, end of the loop), and the type
invariant is proved first. `LoopCorrect` combines them; `TypeCorrect`,
`DescriptorsValid`, `DescriptorsKept`, `ReadsReturn`, `AnswersReachSender` and
`WakeupsKept` follow. The last is about input that arrived since a connection was
last read; what a read leaves behind, beyond its buffer or a FIN after data, has
no wakeup, in the code and in the model.

`LoopNeverStuck` is `OnlyWriteBlocks` with the guards of the steps, place by
place (`CanStep`), instead of ENABLED. It needs `ProgressInvariant` besides:
`dispatch` has an event left, a write has copied no more than the answer, no
send buffer holds more than `SndBuf`; and it needs `NoBlockingRead`, that parse
always returns, and that a ready list of any size has a batch of the size
`epoll_wait` gives.

*Well-behaved clients.* `WellBehaved` is a formula on the constants: clients
wait for each answer, requests are not cut, system calls do not fail and, in
FastPath mode, requests name plain files that one write takes whole and there is
a descriptor to spare (opening the file fails otherwise, and that ends the loop). The instance of the
`service` run satisfies it; the `faults` run is one where it does not hold and
the loop ends by error and by panic. `ServiceInvariant` (`ServiceCorrect`) is
inductive together with `LoopInvariant`: a client has at most one request under
way, whole, either in its receive buffer (and then counted as new input) or in
the hands of the loop (`OneAtATime`); it is handled whole and one write takes
its answer (`HandledWhole`). A client that has left has nothing
under way, so no write meets a reset: that is why `LoopRunsOn` holds.
`SleepsWhenAnswered` needs
`NoLostWakeup` besides, since a request in a receive buffer is new input and so
on the ready list. `ServerImplementsService` maps `asked` and `answered` to the
requests and answers of each connection.

**WorkerPoolProofs.** `PoolTypeCorrect`; then `PopLooksAhead`: `ScanAhead`, the
job that was there all along is in a queue still to be tried, is inductive with
the type invariant, because a job never moves from one queue to another and
`Victim(w, _)` runs through every queue. `PopIsSound` (`NoneMeansNoJob`) is its
last instance: past the end, nothing is left to try.
`JobsNeitherLostNorRepeated` proves `JobsConserved` from `Distinct`.
`ShutdownEndsQueue` says where a `Shutdown` can be: last in a queue that was
stopped. With it each step that changes the set of living workers or `Owing`
(the queues that hold a `Shutdown` or have yet to get one) takes one element
from both, which gives `EveryWorkerStops` by cardinality, whoever steals from
whom; and when no worker lives nothing is owed, so every queue is empty
(`LastWorkerLeavesNothing`). `WorkersImplementPool` maps the pending jobs of
`TaskPool` to the queued ones and its results to the processed ones; a worker's
step that takes a job is the abstract step because the job was in one place
only.

**IoUringProofs.** `RingInvariant` is inductive: an operation is in at most one
of the submission queue, the kernel and the completion queue, and reported only
when in none (`OnePlace`); at most one operation per descriptor is believed to
be under way (`OneInFlight`); entries and completions carry the descriptor of
their operation and a length within its buffer (`Tagged`); a buffer is lent
until the completion is *read*, not only until it is posted (`LentUntilRead`).
The last is the strengthening that matters: a completion names only a
descriptor, and it is taken for the right operation because no other is in
flight on that one. The exception is a descriptor for which `submit` failed
(`Leftover`): its entry is still in the queue, and its completion may be taken
for that of a retry. `BuffersStayLent` and the second half of `CountsFitBuffers`
leave these descriptors out; that a count fits the buffer of its own operation
holds for all. `NoOperationLost`, `BuffersStayLent`, `CountsFitBuffers` and
`RingTypeCorrect` follow. That the queue length is a power of two no less than
asked for takes a smallest such power, from the minimum principle of the
naturals; `PowerAssumption` states the facts about `2^n` that the provers do not
know.

**HandlersProofs.** `HandlerInvariant`: unless the file was truncated, the
length the handler took from `metadata` is at most the length of the file it has
open (`MappingWithinFile`), also while others rename a new file into place,
because the descriptor keeps the old inode. A page that starts below that length
is then backed by the file, which is a lemma about division and gives
`OnlyTruncationFaults`. `OneVersion` says that what is copied agrees with the
version there was when the length was asked for, byte by byte; renaming does not
touch the open inode and appending only adds behind, so at the end the body is
that version (`RenamingIsSafe`). `ErrorsHaveCauses` needs `ErrInvariant`: past
`exists` the path is `static_dir` or named the file then, and names it still
unless it was removed since (`FoundBefore`), so that `open` misses nothing that
was never there; with `VersionsSeen` an empty length is that of a version the
file had during the request.

`QuietIsAtomic` is what entitles `Reactor` to handle a request in one step.
`QuietInvariant` is inductive with `HandlerInvariant`: a request in hand was
sent by a client (`RequestKnown`), and as long as no file changed, what the
handler found at an earlier call is still so (`StillSo`: the name still leads to
the inode that is open, of the length that was asked for, and not to nothing).
Every way out of the handler then gives the kind, status and size that
`Http!AnswerTo` gives for the files there are. `clean_path` recovers the path
from the target, because a query that the client encoded comes after the first
`?`.

`FormsAreRecovered` holds for forms with any number of fields over words of any
length. Its lemmas follow the code: `RoundTrip` (decoding what was encoded gives
it back: by induction the machine is back in its state without an open escape
after each escaped character, with one character more), `WordIs` (an encoded
word has no separator in it), `FindFirst`, `PieceIs` and `Cut` (so `split` and
`find` cut where the client joined, piece by piece), `QueryIs` (the pieces of a
query are the fields of the form, in order) and `ParamsAre` (the last piece with
a key is the last field with it).

**ServerProofs.** `LaunchInvariant`: threads exist only after the flag is set
and the socket listens, and end with the process. `WorkersNeverLeave` follows,
whichever call fails. `ArgumentsAsDocumented` holds for every command line. The
loop invariant is `Reached`: at the turn that looks at word `i`, `i` is not the
value of an option, no word before it asks for help, and each field is what the
last word before `i` that sets it says; each turn goes at least one word on, so
as many turns as words come to the end of the line.

**BenchProofs.** `StepInvariant`: as long as all answers to a thread were single
pieces, at most one answer is on its way or in its socket buffer, it is the
answer to the last request, and there is none unless the thread is about to read
or is done (`OneAnswer`). `ReadsStayInStep` follows. `BenchTypes` proves
`TypeOK`, for which the configuration has to come out of the command line with
the right types. `ReportInvariant` adds that the threads are those of the
configuration, all done at the end, and that `latencies` is sorted then. In
`StatisticsAgree` every step of `record_request` moves one thread into or out of
the set of those in between, and one term from the sum over the threads to
`total_bytes` (a sum that changes in one term changes by that much).
`PercentilesAreRight`: with `n` latencies the index `n * p / 100` is below `n`
as `p < 100`, and in a sorted sequence all entries up to it are no larger; that
makes at least `p` percent of them.

**SendFileProofs.** `SendInvariant` (types, `SentIsPrefix`, nothing sent before
the first call or with an error) is inductive; `SendsPrefix` and `ErrIsClean`
follow.

**Recursion.** The library states induction with an operator as parameter, which
the provers cannot instantiate. Here it is stated with a set instead (`UpTo`: a
set of numbers with 0 in it and closed under successor contains `0..n`), which
rests on the well-foundedness of the naturals, and the existence of a function
that goes on step by step (`StepwiseExists`) follows. This is how the proofs
above reach the recursive functions of `Args`, `Target` and `Bench` and the fold
behind `FlattenSeq`.

## 6. Only model-checked

* Liveness: `BacklogServed`, `HangupNoticed`, `AllStop`, `ServesOrExits`,
  `Returns`, `AcceptedIsReported`, `Terminates`, and the fairness of
  `ServiceSpec` and `PoolSpec`. It needs fairness, which this prover does not
  handle. Of the two refinements, the safety parts are proved.
* `OnlyWriteBlocks` as it stands, which has ENABLED. `LoopNeverStuck` proves it
  with the guards of the steps written out; that `CanStep` is `ENABLED LoopStep` in every
  state was checked with TLC as an extra invariant of `faults`.
* The full type invariants of `Server` and `Handlers`: `LaunchInvariant` and
  `FilesOK` with `RequestKnown` have the parts the other properties need.

Every other invariant that a run checks is a theorem.

## 7. State of the plan

Every part of the repository with logic of its own is modelled, every component
with state has a proved invariant, every safety invariant of the runs is proved
(with the exception above) and both refinements are proved but for their
fairness. What could be added:

1. requests with several header blocks in one read (`parser.rs:49`), where the
   rest of the buffer is dropped: the `hangup` run covers the parts of one
   request, and no document says what pipelined requests are to expect;
2. the type invariants of `Server` and `Handlers` as theorems.

## 8. Not modelled

`DpdkAdapter` (a placeholder that does nothing), the `NetworkBackend` trait (no
type implements it), the scripts and build files, logging, the text of help
and results, the duration histogram (never read), the tuning reports (they read
`/proc` and log) and `apply_tuning` (a list of independent writes without a
caller). Without a caller and without state of their own: `EpollBackend::modify`,
`get_event_fd`, `get_event_flags`, `splice_data` and `vmsplice_write` (one system
call each), the CPU affinity functions other than `pin_to_cores`, and the request
and response accessors (`get_header`, `is_keep_alive`, `content_length`, `has_body`,
`html`, `internal_error`, `size`).

## 9. Running

```
tlc -config MCReactor_faults.cfg MCReactor
tlapm ReactorProofs.tla
```

`PROJECT.json` lists the module and configuration of every run, the definition
each source line is modelled by, and for every property a mutated definition
(named `<definition>_<Mutation>`, beside the definition) that violates it.
